---- MODULE Spec2Model ----
(***************************************************************************)
(* Model of redis-asio: the single-flight request/response future          *)
(* (base/connection.rs), and the subscription engine built from a 1-slot   *)
(* channel, a sink task and a source task (stream/consume.rs,              *)
(* stream/stream.rs).                                                      *)
(*                                                                         *)
(* Text and byte strings are sequences of one-character strings.           *)
(* The transport is the pair the connection owns: a Sink of commands       *)
(* (start_send / poll_complete) and a Stream of decoded reply frames.      *)
(***************************************************************************)
EXTENDS Integers, Sequences, FiniteSets, TLC

\* ------------------------------------------------------------------ bounds

\* number of send calls made on one connection
MaxSends == 2
\* number of reply frames the server produces during one subscription
MaxFrames == 3
MaxEncoded == 1
MaxArgs == 3

\* ------------------------------------------------------- wire / user values

\* RespInternalValue constructors
RespNil == [kind |-> "Nil", val |-> <<>>]
RespError(x) == [kind |-> "Error", val |-> x]
RespStatus(x) == [kind |-> "Status", val |-> x]
RespInt(x) == [kind |-> "Int", val |-> x]
RespBulkString(x) == [kind |-> "BulkString", val |-> x]
RespArray(x) == [kind |-> "Array", val |-> x]

\* RedisValue constructors
RedisNil == [kind |-> "Nil", val |-> <<>>]
RedisOk == [kind |-> "Ok", val |-> <<>>]
RedisStatus(x) == [kind |-> "Status", val |-> x]
RedisInt(x) == [kind |-> "Int", val |-> x]
RedisBulkString(x) == [kind |-> "BulkString", val |-> x]
RedisArray(x) == [kind |-> "Array", val |-> x]

\* RedisResult: Ok(value) or Err(RedisError { error: kind, desc })
ResOk(v) == [ok |-> TRUE, kind |-> "Value", val |-> v]
ResErr(k, desc) == [ok |-> FALSE, kind |-> k, val |-> desc]

OK_TEXT == <<"O", "K">>

\* call by value: the value of F at arguments that are evaluated once
Bind(x, F(_)) == CHOOSE r \in { F(v) : v \in {x} } : TRUE
Call3(F(_, _, _), x, y, z) ==
    CHOOSE r \in { F(u, v, w) : u \in {x}, v \in {y}, w \in {z} } : TRUE

\* RespInternalValue::into_redis_value / RedisValue::from_resp_value:
\* Status("OK") becomes Ok, an Error (at any depth) becomes a ReceiveError
\* carrying the server text, arrays convert element by element and stop at
\* the first failing element.
RECURSIVE from_resp_value(_)
RECURSIVE from_resp_array(_, _, _)
from_resp_array(x, i, res) ==
    IF i > Len(x) THEN ResOk(RedisArray(res))
    ELSE Bind(from_resp_value(x[i]),
              LAMBDA r : IF r.ok THEN Call3(from_resp_array, x, i + 1, Append(res, r.val))
                         ELSE r)

from_resp_value(resp_value) ==
    CASE resp_value.kind = "Nil" -> ResOk(RedisNil)
      [] resp_value.kind = "Error" -> ResErr("ReceiveError", resp_value.val)
      [] resp_value.kind = "Status" ->
            IF resp_value.val = OK_TEXT THEN ResOk(RedisOk)
            ELSE ResOk(RedisStatus(resp_value.val))
      [] resp_value.kind = "Int" -> ResOk(RedisInt(resp_value.val))
      [] resp_value.kind = "BulkString" -> ResOk(RedisBulkString(resp_value.val))
      [] resp_value.kind = "Array" -> from_resp_array(resp_value.val, 1, <<>>)

\* a conversion that looks at the outermost value only
into_redis_value_shallow(resp_value) ==
    IF resp_value.kind = "Array" THEN ResOk(RedisArray(resp_value.val))
    ELSE from_resp_value(resp_value)

into_redis_value(resp_value) == from_resp_value(resp_value)

\* ------------------------------------------------------- value conversion

\* a byte that is not valid UTF-8
BAD_BYTE == "#FF"
DIGITS == <<"0", "1", "2", "3", "4", "5", "6", "7", "8", "9">>

IsUtf8(bytes) == \A i \in 1..Len(bytes) : bytes[i] # BAD_BYTE
IsDigit(c) == \E i \in 1..10 : DIGITS[i] = c
DigitValue(c) == (CHOOSE i \in 1..10 : DIGITS[i] = c) - 1

conversion_error_from_value(dst_type) == ResErr("IncorrectConversion", dst_type)

\* impl FromRedisValue for String
string_from_redis_value(value) ==
    CASE value.kind = "Status" -> ResOk(value.val)
      [] value.kind = "BulkString" ->
            IF IsUtf8(value.val) THEN ResOk(value.val)
            ELSE ResErr("IncorrectConversion", <<"utf8">>)
      [] OTHER -> conversion_error_from_value(<<"String">>)

\* impl FromRedisValue for Vec<T>, outer match: the elements to convert.
\* A BulkString converts byte by byte through T::from_redis_u8, which is
\* None for every T but u8: only the empty BulkString succeeds.
vec_elements(value) ==
    CASE value.kind = "BulkString" ->
            IF value.val = <<>> THEN ResOk(<<>>)
            ELSE conversion_error_from_value(<<"Vec">>)
      [] value.kind = "Array" -> ResOk(value.val)
      [] OTHER -> conversion_error_from_value(<<"Array">>)

\* HashMap::insert: a later value for the same key replaces the earlier one
map_insert(m, k, v) == [x \in (DOMAIN m) \cup {k} |-> IF x = k THEN v ELSE m[x]]

\* impl FromRedisValue for HashMap<String, RedisValue>
RECURSIVE hashmap_chunks(_, _, _)
hashmap_chunks(key_values, i, result) ==
    IF i > Len(key_values) THEN ResOk(result)
    ELSE Bind(string_from_redis_value(key_values[i]),
              LAMBDA key : IF ~key.ok THEN key
                           ELSE Call3(hashmap_chunks, key_values, i + 2,
                                      map_insert(result, key.val, key_values[i + 1])))

hashmap_from_redis_value(value) ==
    IF value.kind = "Array"
    THEN IF Len(value.val) % 2 # 0
         THEN conversion_error_from_value(<<"HashMap">>)
         ELSE hashmap_chunks(value.val, 1, <<>>)
    ELSE conversion_error_from_value(<<"HashMap">>)

\* impl FromRedisValue for (T1, T2), up to the length check
tuple_values(value) ==
    Bind(vec_elements(value),
         LAMBDA values : IF ~values.ok THEN values
                         ELSE IF Len(values.val) # 2 THEN ResErr("ParseError", <<"tuple">>)
                         ELSE values)

\* impl FromRedisValue for EntryInfo: (String, HashMap<String, RedisValue>)
entry_info_from_redis_value(value) ==
    Bind(tuple_values(value), LAMBDA values :
      IF ~values.ok THEN values
      ELSE Bind(string_from_redis_value(values.val[1]), LAMBDA first :
        IF ~first.ok THEN first
        ELSE Bind(hashmap_from_redis_value(values.val[2]), LAMBDA second :
          IF ~second.ok THEN second
          ELSE ResOk([id |-> first.val, key_values |-> second.val]))))

\* Vec<EntryInfo>
RECURSIVE entry_infos(_, _, _)
entry_infos(x, i, result) ==
    IF i > Len(x) THEN ResOk(result)
    ELSE Bind(entry_info_from_redis_value(x[i]),
              LAMBDA r : IF r.ok THEN Call3(entry_infos, x, i + 1, Append(result, r.val))
                         ELSE r)

\* impl FromRedisValue for StreamInfo: (String, Vec<EntryInfo>)
stream_info_from_redis_value(value) ==
    Bind(tuple_values(value), LAMBDA values :
      IF ~values.ok THEN values
      ELSE Bind(string_from_redis_value(values.val[1]), LAMBDA first :
        IF ~first.ok THEN first
        ELSE Bind(vec_elements(values.val[2]), LAMBDA elems :
          IF ~elems.ok THEN elems
          ELSE Bind(entry_infos(elems.val, 1, <<>>), LAMBDA second :
            IF ~second.ok THEN second
            ELSE ResOk([id |-> first.val, entries |-> second.val])))))

\* Vec<StreamInfo>
RECURSIVE stream_infos(_, _, _)
stream_infos(x, i, result) ==
    IF i > Len(x) THEN ResOk(result)
    ELSE Bind(stream_info_from_redis_value(x[i]),
              LAMBDA r : IF r.ok THEN Call3(stream_infos, x, i + 1, Append(result, r.val))
                         ELSE r)

\* ------------------------------------------------------------------ entry id

\* id.split('-').filter(|token| !token.is_empty())
RECURSIVE split_tokens(_, _, _)
split_tokens(s, cur, acc) ==
    IF s = <<>> THEN (IF cur = <<>> THEN acc ELSE Append(acc, cur))
    ELSE IF Head(s) = "-"
         THEN Call3(split_tokens, Tail(s), <<>>,
                    IF cur = <<>> THEN acc ELSE Append(acc, cur))
         ELSE Call3(split_tokens, Tail(s), Append(cur, Head(s)), acc)

RECURSIVE digits_value(_, _)
digits_value(s, acc) ==
    IF s = <<>> THEN acc
    ELSE Bind(acc * 10 + DigitValue(Head(s)), LAMBDA n : digits_value(Tail(s), n))

\* str::parse::<u64>: an optional '+', then one or more decimal digits
\* (the components used in the model stay far below 2^64)
parse_u64(tok) ==
    Bind(IF tok # <<>> /\ Head(tok) = "+" THEN Tail(tok) ELSE tok,
         LAMBDA body : IF body # <<>> /\ \A i \in 1..Len(body) : IsDigit(body[i])
                       THEN ResOk(digits_value(body, 0))
                       ELSE ResErr("ParseError", <<"int">>))

ENTRY_ID_CHUNK_LEN == 2

\* EntryId::from_string
EntryId_from_string(id) ==
    Bind(split_tokens(id, <<>>, <<>>), LAMBDA tokens :
      IF Len(tokens) # ENTRY_ID_CHUNK_LEN THEN ResErr("ParseError", <<"entry id">>)
      ELSE Bind(parse_u64(tokens[1]), LAMBDA ms :
        IF ~ms.ok THEN ms
        ELSE Bind(parse_u64(tokens[2]), LAMBDA n :
          IF ~n.ok THEN n ELSE ResOk(<<ms.val, n.val>>))))

\* loops that put every entry in front of the ones before it
RECURSIVE stream_entries_newest_first(_, _, _, _)
stream_entries_newest_first(streams, s, e, result) ==
    IF s > Len(streams) THEN [ok |-> TRUE, kind |-> "Value", val |-> result]
    ELSE IF e > Len(streams[s].entries)
    THEN stream_entries_newest_first(streams, s + 1, 1, result)
    ELSE Bind(EntryId_from_string(streams[s].entries[e].id), LAMBDA id :
           IF ~id.ok THEN id
           ELSE Bind(<<[stream |-> streams[s].id, id |-> id.val,
                        values |-> streams[s].entries[e].key_values]>> \o result,
                     LAMBDA entries : stream_entries_newest_first(streams, s, e + 1, entries)))

StreamEntry_new(stream, id, values) == [stream |-> stream, id |-> id, values |-> values]

\* parse_stream_entries, the loops over streams and their entries
RECURSIVE stream_entries_of(_, _, _, _)
stream_entries_of(streams, s, e, result) ==
    IF s > Len(streams) THEN ResOk(result)
    ELSE IF e > Len(streams[s].entries) THEN stream_entries_of(streams, s + 1, 1, result)
    ELSE Bind(EntryId_from_string(streams[s].entries[e].id), LAMBDA id :
           IF ~id.ok THEN id
           ELSE Bind(Append(result, StreamEntry_new(streams[s].id, id.val,
                                                    streams[s].entries[e].key_values)),
                     LAMBDA entries : stream_entries_of(streams, s, e + 1, entries)))

\* parse_stream_entries: XREAD/XREADGROUP reply to a list of StreamEntry
parse_stream_entries(value) ==
    Bind(vec_elements(value), LAMBDA elems :
      IF ~elems.ok THEN elems
      ELSE Bind(stream_infos(elems.val, 1, <<>>), LAMBDA streams :
        IF ~streams.ok THEN streams
        ELSE stream_entries_of(streams.val, 1, 1, <<>>)))

\* ------------------------------------------------------------------ commands

\* RedisCommand: the args vector; every argument is a BulkString
command(cmd) == <<RespBulkString(cmd)>>
arg(c, a) == Append(c, RespBulkString(a))
\* an append that puts the other command's arguments in front
append_front(c, other) == other \o c

append(c, other) == c \o other
into_resp_value(c) == RespArray(c)

\* Option<RedisGroup>
NoGroup == [kind |-> "None", group |-> <<>>, consumer |-> <<>>]
SomeGroup(g, c) == [kind |-> "Some", group |-> g, consumer |-> c]

XREAD == <<"X", "R", "E", "A", "D">>
XREADGROUP == <<"X", "R", "E", "A", "D", "G", "R", "O", "U", "P">>
GROUP == <<"G", "R", "O", "U", "P">>
BLOCK == <<"B", "L", "O", "C", "K">>
STREAMS == <<"S", "T", "R", "E", "A", "M", "S">>

\* subscribe_cmd, the loop over the streams: names go to cmd, one
\* id_specifier per name goes to ids_cmd
RECURSIVE subscribe_cmd_streams(_, _, _, _)
subscribe_cmd_streams(streams, id_specifier, cmd, ids_cmd) ==
    IF streams = <<>> THEN append(cmd, ids_cmd)
    ELSE subscribe_cmd_streams(Tail(streams), id_specifier,
                               arg(cmd, Head(streams)), arg(ids_cmd, id_specifier))

\* a subscribe command that asks for the new entries of the streams only,
\* with or without a group
subscribe_cmd_new_only(options) ==
    LET cmd0 == IF options.group.kind = "Some" THEN command(XREADGROUP) ELSE command(XREAD)
        cmd1 == IF options.group.kind = "Some"
                THEN arg(arg(arg(cmd0, GROUP), options.group.group), options.group.consumer)
                ELSE cmd0
        cmd2 == arg(arg(arg(cmd1, BLOCK), <<"0">>), STREAMS)
    IN  subscribe_cmd_streams(options.streams, <<"$">>, cmd2, <<>>)

\* subscribe_cmd
subscribe_cmd(options) ==
    LET id_specifier == IF options.group.kind = "Some" THEN <<">">> ELSE <<"$">>
        cmd0 == IF options.group.kind = "Some" THEN command(XREADGROUP) ELSE command(XREAD)
        cmd1 == IF options.group.kind = "Some"
                THEN arg(arg(arg(cmd0, GROUP), options.group.group), options.group.consumer)
                ELSE cmd0
        cmd2 == arg(arg(arg(cmd1, BLOCK), <<"0">>), STREAMS)
    IN  subscribe_cmd_streams(options.streams, id_specifier, cmd2, <<>>)

\* SubscribeOptions::new / SubscribeOptions::with_group
SubscribeOptions_new(streams) == [streams |-> streams, group |-> NoGroup]
SubscribeOptions_with_group(streams, group) == [streams |-> streams, group |-> group]

\* the options a subscription is started with in the model
OptionsSet ==
    { SubscribeOptions_new(<< <<"s">> >>),
      SubscribeOptions_with_group(<< <<"s">>, <<"t">> >>, SomeGroup(<<"g">>, <<"c">>)) }

\* the connection holds no subscription options
NoOptions == SubscribeOptions_new(<<>>)

\* one entry of a read reply: (id, field array)
ReplyEntry(id, fields) == RespArray(<<RespBulkString(id), RespArray(fields)>>)
\* a read reply with one stream holding one entry
ReplyBatch(stream, id, fields) ==
    RespArray(<< RespArray(<<RespBulkString(stream), RespArray(<<ReplyEntry(id, fields)>>)>>) >>)

\* the reply frames the server may answer a read command with
SubReplies ==
    { ReplyBatch(<<"s">>, <<"1", "-", "0">>, <<RespBulkString(<<"a">>), RespBulkString(<<"b">>)>>),
      ReplyBatch(<<"s">>, <<"2", "-", "0">>, <<RespBulkString(<<"c">>), RespInt(4)>>),
      RespInt(1),
      RespError(<<"E">>) }

\* the requests the caller sends in the model
Requests == { command(<<"P">>), arg(command(<<"G">>), <<"k">>) }

\* the reply frames the server may answer a request with
SendReplies ==
    { RespStatus(OK_TEXT),
      RespInt(1),
      RespError(<<"E">>),
      RespArray(<<RespBulkString(<<"a">>), RespError(<<"N">>)>>) }

\* Async answers of the transport sink to start_send and poll_complete
SinkAnswers == {"Ready", "NotReady", "Err"}

\* Option<RedisCommand>
NoRequest == [kind |-> "None", val |-> <<>>]
SomeRequest(c) == [kind |-> "Some", val |-> c]

\* ---------------------------------------------------------------------- codec

CR == "\r"
LF == "\n"

\* const CRLF_LEN
CRLF_LEN == 2

\* resp_start_bytes
START_ERROR == "-"
START_STATUS == "+"
START_INT == ":"
START_BULK_STRING == "$"
START_ARRAY == "*"

\* i64::MAX and the magnitude of i64::MIN, in decimal digits
I64_MAX_TEXT ==
    <<"9", "2", "2", "3", "3", "7", "2", "0", "3", "6", "8", "5", "4", "7", "7", "5",
      "8", "0", "7">>
I64_MIN_TEXT ==
    <<"9", "2", "2", "3", "3", "7", "2", "0", "3", "6", "8", "5", "4", "7", "7", "5",
      "8", "0", "8">>

\* the largest capacity Vec::<RespInternalValue>::with_capacity accepts:
\* isize::MAX bytes / 32 bytes for one element, in decimal digits
VEC_CAPACITY_MAX_TEXT ==
    <<"2", "8", "8", "2", "3", "0", "3", "7", "6", "1", "5", "1", "7", "1", "1", "7",
      "4", "3">>

\* the decimal digits a model integer may have
MODEL_INT_DIGITS == 9

\* usize / i64 to_string of a natural number
RECURSIVE nat_to_text(_)
nat_to_text(n) ==
    IF n < 10 THEN <<DIGITS[n + 1]>>
    ELSE Append(nat_to_text(n \div 10), DIGITS[(n % 10) + 1])

\* i64::to_string
int_to_text(x) == IF x < 0 THEN <<"-">> \o nat_to_text(0 - x) ELSE nat_to_text(x)

\* encode_resp_value
RECURSIVE encode_resp_value(_)
RECURSIVE encode_elements(_, _)
encode_elements(x, i) ==
    IF i > Len(x) THEN <<>>
    ELSE encode_resp_value(x[i]) \o encode_elements(x, i + 1)

encode_resp_value(value) ==
    CASE value.kind = "Nil" -> <<START_BULK_STRING, "-", "1", CR, LF>>
      [] value.kind = "Error" -> <<START_ERROR>> \o value.val \o <<CR, LF>>
      [] value.kind = "Status" -> <<START_STATUS>> \o value.val \o <<CR, LF>>
      [] value.kind = "Int" -> <<START_INT>> \o int_to_text(value.val) \o <<CR, LF>>
      [] value.kind = "BulkString" ->
            <<START_BULK_STRING>> \o nat_to_text(Len(value.val)) \o <<CR, LF>>
               \o value.val \o <<CR, LF>>
      [] value.kind = "Array" ->
            <<START_ARRAY>> \o nat_to_text(Len(value.val)) \o <<CR, LF>>
               \o encode_elements(value.val, 1)

\* Result<OptParseResult<T>, RedisCoreError>, and a panic of the call
ParseSome(v, n) == [kind |-> "Some", value |-> v, len |-> n]
ParseNone == [kind |-> "None", value |-> RespNil, len |-> 0]
ParseErr(desc) == [kind |-> "Err", value |-> RespError(desc), len |-> 0]
ParsePanic == [kind |-> "Panic", value |-> RespNil, len |-> 0]

\* data.iter().position(|x| *x == CRLF.0), counted from 1; 0 when absent
cr_position(data) ==
    IF \E i \in 1..Len(data) : data[i] = CR
    THEN CHOOSE i \in 1..Len(data) : data[i] = CR /\ \A j \in 1..(i - 1) : data[j] # CR
    ELSE 0

\* parse_simple_string that waits for more bytes when the byte after the CR
\* is not LF
parse_simple_string_lax(data) ==
    Bind(cr_position(data), LAMBDA pos :
      IF pos = 0 THEN ParseNone
      ELSE IF pos - 1 >= Len(data) - 1 THEN ParseNone
      ELSE IF data[pos + 1] # LF THEN ParseNone
      ELSE IF ~IsUtf8(SubSeq(data, 1, pos - 1)) THEN ParseErr(<<"utf8">>)
      ELSE ParseSome(SubSeq(data, 1, pos - 1), (pos - 1) + CRLF_LEN))

\* parse_simple_string
parse_simple_string(data) ==
    Bind(cr_position(data), LAMBDA pos :
      IF pos = 0 THEN ParseNone
      ELSE IF pos - 1 >= Len(data) - 1 THEN ParseNone
      ELSE IF data[pos + 1] # LF THEN ParseErr(<<"CRLF">>)
      ELSE IF ~IsUtf8(SubSeq(data, 1, pos - 1)) THEN ParseErr(<<"utf8">>)
      ELSE ParseSome(SubSeq(data, 1, pos - 1), (pos - 1) + CRLF_LEN))

\* a decimal number without its leading zeros
RECURSIVE strip_zeros(_)
strip_zeros(d) ==
    IF Len(d) > 1 /\ Head(d) = "0" THEN strip_zeros(Tail(d)) ELSE d

\* a <= b for decimal numbers without leading zeros
dec_leq(a, b) ==
    \/ Len(a) < Len(b)
    \/ /\ Len(a) = Len(b)
       /\ \A i \in 1..Len(a) :
             (\A j \in 1..(i - 1) : a[j] = b[j]) => DigitValue(a[i]) <= DigitValue(b[i])

\* an i64 as sign and magnitude
I64(neg, mag) == [neg |-> neg /\ mag # <<"0">>, mag |-> mag]

\* str::parse::<i64>: an optional sign, one or more decimal digits, and the
\* value within the range of i64
parse_i64(text) ==
    Bind(IF text # <<>> /\ Head(text) \in {"+", "-"} THEN Tail(text) ELSE text,
         LAMBDA body :
           IF body = <<>> \/ \E i \in 1..Len(body) : ~IsDigit(body[i])
           THEN ParseErr(<<"i64">>)
           ELSE Bind(I64(Head(text) = "-", strip_zeros(body)), LAMBDA n :
                  IF dec_leq(n.mag, IF n.neg THEN I64_MIN_TEXT ELSE I64_MAX_TEXT)
                  THEN ParseSome(n, 0)
                  ELSE ParseErr(<<"i64">>)))

\* the i64 fits a model integer
i64_fits(n) == Len(n.mag) <= MODEL_INT_DIGITS

\* the i64 as a model integer
i64_to_int(n) == IF n.neg THEN 0 - digits_value(n.mag, 0) ELSE digits_value(n.mag, 0)

\* parse_simple_int
parse_simple_int(data) ==
    Bind(parse_simple_string(data), LAMBDA r :
      IF r.kind # "Some" THEN r
      ELSE Bind(parse_i64(r.value), LAMBDA n :
             IF n.kind # "Some" THEN n ELSE ParseSome(n.value, r.len)))

\* parse_error
parse_error(data) ==
    Bind(parse_simple_string(data), LAMBDA r :
      IF r.kind = "Some" THEN ParseSome(RespError(r.value), r.len) ELSE r)

\* parse_status
parse_status(data) ==
    Bind(parse_simple_string(data), LAMBDA r :
      IF r.kind = "Some" THEN ParseSome(RespStatus(r.value), r.len) ELSE r)

\* parse_int
parse_int(data) ==
    Bind(parse_simple_int(data), LAMBDA r :
      IF r.kind = "Some" THEN ParseSome(RespInt(i64_to_int(r.value)), r.len) ELSE r)

\* data[..n].ends_with(&[CRLF.0, CRLF.1])
does_end_with_crlf(data, n) == n >= CRLF_LEN /\ data[n - 1] = CR /\ data[n] = LF

\* parse_bulkstring, the null form: a negative length
parse_bulkstring_nil(data, len_len) ==
    IF Len(data) < len_len + CRLF_LEN THEN ParseNone
    ELSE IF does_end_with_crlf(data, len_len + CRLF_LEN)
    THEN ParseSome(RespNil, len_len + CRLF_LEN)
    ELSE ParseErr(<<"bulk">>)

\* parse_bulkstring, a length of string_len bytes
parse_bulkstring_data(data, len_len, string_len) ==
    IF Len(data) < len_len + string_len + CRLF_LEN THEN ParseNone
    ELSE IF ~does_end_with_crlf(data, len_len + string_len + CRLF_LEN)
    THEN ParseErr(<<"bulk">>)
    ELSE ParseSome(RespBulkString(SubSeq(data, len_len + 1, len_len + string_len)),
                   len_len + string_len + CRLF_LEN)

\* parse_bulkstring; a length beyond the model integers is beyond every
\* buffer: data.len() < value_src_len
parse_bulkstring(data) ==
    Bind(parse_simple_int(data), LAMBDA r :
      IF r.kind # "Some" THEN r
      ELSE IF r.value.neg THEN parse_bulkstring_nil(data, r.len)
      ELSE IF ~i64_fits(r.value) THEN ParseNone
      ELSE parse_bulkstring_data(data, r.len, i64_to_int(r.value)))

RECURSIVE parse_resp_value(_)
RECURSIVE parse_array_elements(_, _, _, _)
\* parse_array, the loop `for _ in 0..array_len`
parse_array_elements(data, pos, remaining, result) ==
    IF remaining = 0 THEN ParseSome(RespArray(result), pos)
    ELSE Bind(parse_resp_value(SubSeq(data, pos + 1, Len(data))), LAMBDA e :
           IF e.kind # "Some" THEN e
           ELSE Bind(Append(result, e.value), LAMBDA res :
                  parse_array_elements(data, pos + e.len, remaining - 1, res)))

\* Vec::with_capacity(array_len) panics with a capacity beyond isize::MAX bytes
with_capacity_panics(array_len) == ~dec_leq(array_len.mag, VEC_CAPACITY_MAX_TEXT)

\* the passes of the loop that can start: every pass but the last one
\* consumes at least one byte of data
loop_passes(array_len, data) ==
    IF i64_fits(array_len) /\ i64_to_int(array_len) <= Len(data)
    THEN i64_to_int(array_len)
    ELSE Len(data) + 1

\* parse_array
parse_array(data) ==
    Bind(parse_simple_int(data), LAMBDA r :
      IF r.kind # "Some" THEN r
      ELSE IF r.value.neg THEN ParseErr(<<"array">>)
      ELSE IF with_capacity_panics(r.value) THEN ParsePanic
      ELSE parse_array_elements(data, r.len, loop_passes(r.value, data), <<>>))

\* parse_resp_value, the dispatch on the start byte
parse_by_start_byte(value_id, data) ==
    CASE value_id = START_ERROR -> parse_error(data)
      [] value_id = START_STATUS -> parse_status(data)
      [] value_id = START_INT -> parse_int(data)
      [] value_id = START_BULK_STRING -> parse_bulkstring(data)
      [] value_id = START_ARRAY -> parse_array(data)
      [] OTHER -> ParseErr(<<"start">>)

\* parse_resp_value
parse_resp_value(data) ==
    IF data = <<>> THEN ParseNone
    ELSE Bind(parse_by_start_byte(Head(data), Tail(data)), LAMBDA r :
           IF r.kind = "Some" THEN ParseSome(r.value, r.len + 1) ELSE r)

\* a decode that splits the line of a frame off the buffer before the frame
\* is complete
decode_eager(buf) ==
    Bind(parse_resp_value(buf), LAMBDA r :
      IF r.kind = "Some"
      THEN [kind |-> "Frame", value |-> r.value, len |-> r.len,
            rest |-> SubSeq(buf, r.len + 1, Len(buf))]
      ELSE [kind |-> IF r.kind = "None" THEN "NeedMore" ELSE r.kind,
            value |-> r.value, len |-> 0,
            rest |-> IF cr_position(buf) = 0 THEN buf
                     ELSE SubSeq(buf, cr_position(buf) + 1, Len(buf))])

\* RedisCodec::decode: the outcome of the call and the buffer it leaves
decode(buf) ==
    Bind(parse_resp_value(buf), LAMBDA r :
      CASE r.kind = "Some" /\ r.len <= Len(buf) ->
              [kind |-> "Frame", value |-> r.value, len |-> r.len,
               rest |-> SubSeq(buf, r.len + 1, Len(buf))]
        [] r.kind = "Some" /\ r.len > Len(buf) ->
              [kind |-> "Panic", value |-> RespNil, len |-> 0, rest |-> buf]
        [] r.kind = "None" ->
              [kind |-> "NeedMore", value |-> RespNil, len |-> 0, rest |-> buf]
        [] OTHER -> [kind |-> r.kind, value |-> r.value, len |-> 0, rest |-> buf])

\* RedisCodec::encode: the bytes appended to dst
encode(item) == encode_resp_value(item)

\* --------------------------------------------------------------------- state

VARIABLES
    owner,      \* who holds the connection: "caller", "send", "none" (dropped)
    request,    \* Send.request: Option<RedisCommand>
    is_sent,    \* Send.is_sent
    sinkBuf,    \* commands accepted by start_send, not yet flushed
    srvIn,      \* commands the server has received and not yet answered
    rxQueue,    \* reply frames the receiver stream can yield
    rxClosed,   \* the receive side of the transport has ended
    sends,      \* number of send calls made
    offered,    \* start_send calls made by the current send future
    accepted,   \* the transport accepted the current request
    flushed,    \* poll_complete answered Ready after the request was accepted
    rxPolled,   \* the current send future has polled the receiver
    written,    \* requests accepted by the transport so far
    delivered,  \* history: frames the transport delivered, in order
    consumed,   \* number of frames taken from the receiver
    results,    \* history: outcome of every finished send, in order
    options,    \* the SubscribeOptions of the subscription
    primerItem, \* the first read command is still held by its send future
    chan,       \* sentinels queued in the internal channel
    parked,     \* the sender that pushed the last sentinel is parked
    srcFut,     \* AndThen.future of the source task: the frame it holds
    foldState,  \* Fold.state of the sink task: "Ready", "Processing", "Gone"
    sinkItem,   \* the re-arm command is still held by its send future
    rxAlive,    \* the Receiver of the internal channel exists
    flag,       \* Select.flag: poll the sink task first
    inDone,     \* Fuse.done of the source task
    outDone,    \* Fuse.done of the sink task
    outGone,    \* IntoStream.future of the sink task is None
    items,      \* history: what Subscribe::poll handed to the consumer
    ended,      \* Subscribe::poll returned end-of-sequence
    wire,       \* bytes the peer wrote that have not reached the read buffer
    readBuf,    \* the read buffer RedisCodec::decode works on
    encoded,    \* history: the wire values the peer encoded
    trailed,    \* history: the peer wrote bytes that are no encoded value
    brokenAt,   \* history: position of the CR whose LF the peer replaced, or 0
    dec,        \* the last call of RedisCodec::decode: outcome, buffer before
    converted,  \* the user value made of the last decoded frame
    cmd,        \* RedisCommand.args of the command under construction
    cmdVerb,    \* history: the verb the command was created with
    cmdArgs,    \* history: the argument texts appended to the command
    dst,        \* the bytes RedisCodec::encode wrote for the command
    callIn,     \* the last call of an operation of the library: name, input
    callOut     \* <<the operation, what that call returned>>

sendVars == <<request, is_sent, sends, offered, accepted, flushed, rxPolled,
              results>>

subVars == <<options, primerItem, chan, parked, srcFut, foldState, sinkItem,
             rxAlive, flag, inDone, outDone, outGone, items, ended>>

codecVars ==
    <<wire, readBuf, encoded, trailed, brokenAt, dec, converted, cmd, cmdVerb,
      cmdArgs, dst>>

callVars == <<callIn, callOut>>

vars == <<owner, sinkBuf, srvIn, rxQueue, rxClosed, written, delivered,
          consumed, sendVars, subVars, codecVars, callVars>>

transportVars == <<sinkBuf, srvIn, rxQueue, rxClosed>>

NoFrame == [kind |-> "None", val |-> <<>>]
SomeFrame(f) == [kind |-> "Some", val |-> f]

\* the fields of a subscription before it is started
SubIdle ==
    /\ primerItem = FALSE
    /\ chan = 0
    /\ parked = FALSE
    /\ srcFut = NoFrame
    /\ foldState = "Ready"
    /\ sinkItem = FALSE
    /\ rxAlive = TRUE
    /\ flag = FALSE
    /\ inDone = FALSE
    /\ outDone = FALSE
    /\ outGone = FALSE
    /\ items = <<>>
    /\ ended = FALSE

\* no call of RedisCodec::decode yet
NoDecode == [kind |-> "Idle", value |-> RespNil, len |-> 0, before |-> <<>>, rest |-> <<>>]

\* no frame converted yet
NoConversion == [ok |-> FALSE, kind |-> "None", val |-> <<>>]

\* the codec has seen no bytes
CodecIdle ==
    /\ wire = <<>>
    /\ readBuf = <<>>
    /\ encoded = <<>>
    /\ trailed = FALSE
    /\ brokenAt = 0
    /\ dec = NoDecode
    /\ converted = NoConversion

\* RedisCommand::new(): no command under construction; no operation called
CommandIdle ==
    /\ cmd = <<>>
    /\ cmdVerb = <<>>
    /\ cmdArgs = <<>>
    /\ dst = <<>>
    /\ callIn = [op |-> "none", arg |-> <<>>]
    /\ callOut = <<>>

Init ==
    /\ owner = "caller"
    /\ request = NoRequest
    /\ is_sent = FALSE
    /\ sinkBuf = <<>>
    /\ srvIn = <<>>
    /\ rxQueue = <<>>
    /\ rxClosed = FALSE
    /\ sends = 0
    /\ offered = 0
    /\ accepted = FALSE
    /\ flushed = FALSE
    /\ rxPolled = FALSE
    /\ written = 0
    /\ delivered = <<>>
    /\ consumed = 0
    /\ results = <<>>
    /\ options = NoOptions
    /\ SubIdle
    /\ CodecIdle
    /\ CommandIdle

\* ----------------------------------------------------------- the transport

CLOSED_TEXT == <<"c", "l", "o", "s", "e", "d">>
IO_TEXT == <<"i", "o">>

\* receiver_poll that leaves the frame it yields in the queue
receiver_poll_peek(queue, closed) ==
    IF queue # <<>> THEN [res |-> "Some", frame |-> Head(queue), rest |-> queue]
    ELSE IF closed THEN [res |-> "None", frame |-> RespNil, rest |-> queue]
    ELSE [res |-> "NotReady", frame |-> RespNil, rest |-> queue]

\* receiver_poll that never reports the end of the stream
receiver_poll_noeof(queue, closed) ==
    IF queue # <<>> THEN [res |-> "Some", frame |-> Head(queue), rest |-> Tail(queue)]
    ELSE [res |-> "NotReady", frame |-> RespNil, rest |-> queue]

\* Stream::poll of the receiver: the next decoded frame if one has arrived,
\* end of stream once the receive side has ended, NotReady otherwise.
receiver_poll(queue, closed) ==
    IF queue # <<>> THEN [res |-> "Some", frame |-> Head(queue), rest |-> Tail(queue)]
    ELSE IF closed THEN [res |-> "None", frame |-> RespNil, rest |-> queue]
    ELSE [res |-> "NotReady", frame |-> RespNil, rest |-> queue]

\* the server answers the oldest request it has received with one frame
ServerReply(f) ==
    /\ srvIn # <<>>
    /\ ~rxClosed
    /\ srvIn' = Tail(srvIn)
    /\ rxQueue' = Append(rxQueue, f)
    /\ delivered' = Append(delivered, f)
    /\ UNCHANGED <<owner, sinkBuf, rxClosed, written, consumed, sendVars, subVars, codecVars, callVars>>

\* the peer closes the byte stream
PeerClose ==
    /\ ~rxClosed
    /\ rxClosed' = TRUE
    /\ UNCHANGED <<owner, sinkBuf, srvIn, rxQueue, written, delivered, consumed,
                   sendVars, subVars, codecVars, callVars>>

\* ------------------------------------------------- RedisCoreConnection::send

\* RedisCoreConnection::send / Send::new: consumes the connection
send(req) ==
    /\ owner = "caller"
    /\ sends < MaxSends
    /\ owner' = "send"
    /\ request' = SomeRequest(req)
    /\ is_sent' = FALSE
    /\ sends' = sends + 1
    /\ offered' = 0
    /\ accepted' = FALSE
    /\ flushed' = FALSE
    /\ rxPolled' = FALSE
    /\ UNCHANGED <<sinkBuf, srvIn, rxQueue, rxClosed, written, delivered,
                   consumed, results, subVars, codecVars, callVars>>

\* Send::poll, lines 94-98: what is left in self.request after the request
\* was taken and start_send answered `ans`
request_after_start_send(req, ans) == NoRequest

\* send_outcome that hands the frame over without converting it
send_outcome_raw(r) ==
    IF r.res = "Some" THEN ResOk(r.frame)
    ELSE ResErr("ConnectionError", CLOSED_TEXT)

\* Send::poll, lines 107-116: the outcome of the future for the receiver's answer
send_outcome(r) ==
    IF r.res = "Some" THEN into_redis_value(r.frame)
    ELSE ResErr("ConnectionError", CLOSED_TEXT)

\* the future ends with an error: sender and receiver are dropped with it
SendFail(err, off, buf, srv, acc, fl, sent, polled, wr) ==
    /\ owner' = "none"
    /\ request' = NoRequest
    /\ is_sent' = sent
    /\ sinkBuf' = buf
    /\ srvIn' = srv
    /\ offered' = off
    /\ accepted' = acc
    /\ flushed' = fl
    /\ rxPolled' = polled
    /\ written' = wr
    /\ results' = Append(results, err)
    /\ UNCHANGED <<rxQueue, rxClosed, sends, delivered, consumed, subVars, codecVars, callVars>>

\* the future returns NotReady
SendPending(req, off, buf, srv, acc, fl, sent, polled, wr) ==
    /\ owner' = "send"
    /\ request' = req
    /\ is_sent' = sent
    /\ sinkBuf' = buf
    /\ srvIn' = srv
    /\ offered' = off
    /\ accepted' = acc
    /\ flushed' = fl
    /\ rxPolled' = polled
    /\ written' = wr
    /\ UNCHANGED <<rxQueue, rxClosed, sends, delivered, consumed, results,
                   subVars, codecVars, callVars>>

\* Send::poll, one call; sAns and fAns are the answers the sink gives to
\* start_send and poll_complete if this call asks for them
SendPoll(sAns, fAns) ==
    /\ owner = "send"
    /\ LET took == request # NoRequest
           off == IF took THEN offered + 1 ELSE offered
       IN
       IF took /\ sAns = "Err"
       THEN SendFail(ResErr("ConnectionError", IO_TEXT), off, sinkBuf, srvIn,
                     accepted, flushed, is_sent, rxPolled, written)
       ELSE IF took /\ sAns = "NotReady"
       THEN SendPending(request_after_start_send(request, sAns), off, sinkBuf,
                        srvIn, accepted, flushed, is_sent, rxPolled, written)
       ELSE
       LET buf1 == IF took THEN Append(sinkBuf, request.val) ELSE sinkBuf
           acc1 == accepted \/ took
           wr1 == IF took THEN written + 1 ELSE written
       IN
       IF ~is_sent /\ fAns = "Err"
       THEN SendFail(ResErr("ConnectionError", IO_TEXT), off, buf1, srvIn,
                     acc1, flushed, is_sent, rxPolled, wr1)
       ELSE IF ~is_sent /\ fAns = "NotReady"
       THEN SendPending(NoRequest, off, buf1, srvIn, acc1, flushed, is_sent,
                        rxPolled, wr1)
       ELSE
       LET buf2 == IF is_sent THEN buf1 ELSE <<>>
           srv2 == IF is_sent THEN srvIn ELSE srvIn \o buf1
           fl2 == flushed \/ (~is_sent /\ acc1)
           r == receiver_poll(rxQueue, rxClosed)
       IN
       IF r.res = "NotReady"
       THEN SendPending(NoRequest, off, buf2, srv2, acc1, fl2, TRUE, TRUE, wr1)
       ELSE
       LET out == send_outcome(r)
       IN
       /\ owner' = IF out.ok THEN "caller" ELSE "none"
       /\ request' = NoRequest
       /\ is_sent' = TRUE
       /\ sinkBuf' = buf2
       /\ srvIn' = srv2
       /\ rxQueue' = r.rest
       /\ offered' = off
       /\ accepted' = acc1
       /\ flushed' = fl2
       /\ rxPolled' = TRUE
       /\ written' = wr1
       /\ consumed' = IF r.res = "Some" THEN consumed + 1 ELSE consumed
       /\ results' = Append(results, out)
       /\ UNCHANGED <<rxClosed, sends, delivered, subVars, codecVars, callVars>>

Next ==
    \/ \E req \in Requests : send(req)
    \/ \E sAns \in SinkAnswers, fAns \in SinkAnswers : SendPoll(sAns, fAns)
    \/ \E f \in SendReplies : ServerReply(f)
    \/ PeerClose

Spec == Init /\ [][Next]_vars

\* the executor polls the future again, the transport is eventually ready
\* for what it is asked, and the server answers what it has received
FairSpec ==
    /\ Spec
    /\ WF_vars(SendPoll("Ready", "Ready"))
    /\ WF_vars(\E f \in SendReplies : ServerReply(f))

\* --------------------------------------------------- the subscription engine

\* const BUFFER_SIZE in subscribe: the buffer of the internal channel
BUFFER_SIZE == 1

LISTEN_TEXT == <<"l", "i", "s", "t", "e", "n">>

\* what a poll of a stream or future returns
PollItem(v) == [kind |-> "Item", src |-> "frame", val |-> v]
PollNothing == [kind |-> "Nothing", src |-> "sink", val |-> <<>>]
PollEnd == [kind |-> "End", src |-> "none", val |-> <<>>]
PollNotReady == [kind |-> "NotReady", src |-> "none", val |-> <<>>]
PollErr(from, e) == [kind |-> "Err", src |-> from, val |-> e]

\* the state a poll of the subscription works on
SubState ==
    [chan |-> chan, parked |-> parked, srcFut |-> srcFut, foldState |-> foldState,
     sinkItem |-> sinkItem, rxAlive |-> rxAlive, flag |-> flag, inDone |-> inDone,
     outDone |-> outDone, outGone |-> outGone, sinkBuf |-> sinkBuf, srvIn |-> srvIn,
     rxQueue |-> rxQueue, written |-> written, consumed |-> consumed]

\* a channel of `buffer` slots the senders of which never wait
sender_parks_unbuffered(queued) == queued > 0

\* mpsc Sender, channel(BUFFER_SIZE): the sender that made the number of
\* queued messages `queued` has to wait for the receiver
sender_parks(queued) == queued > BUFFER_SIZE

\* a conversion that lets a wire Error through as a text value
convert_frame_lenient(msg) ==
    IF msg.kind = "Error" THEN ResOk(RedisStatus(msg.val)) ELSE from_resp_value(msg)

\* process_from_srv_and_notify_channel, line 245: the item for a frame
convert_frame(msg) == from_resp_value(msg)

\* the then(..) closure of the future made for one frame, once the sentinel
\* is in the channel: the frame is converted
source_then(st, msg) ==
    [st |-> [st EXCEPT !.srcFut = NoFrame, !.parked = FALSE],
     res |-> IF convert_frame(msg).ok
             THEN PollItem(convert_frame(msg).val)
             ELSE PollErr("frame", convert_frame(msg))]

\* Send::poll of tx.clone().send(ListenNextMessage) after start_send: it is
\* not ready while the sender waits for the receiver
source_send_complete(st, msg) ==
    IF st.parked /\ st.rxAlive
    THEN [st |-> [st EXCEPT !.srcFut = SomeFrame(msg)], res |-> PollNotReady]
    ELSE source_then(st, msg)

\* a future for one frame that converts the frame and pushes no sentinel
SourceFuture_unannounced(st, msg, fresh) ==
    [st |-> [st EXCEPT !.srcFut = NoFrame, !.parked = FALSE],
     res |-> IF convert_frame(msg).ok
             THEN PollItem(convert_frame(msg).val)
             ELSE PollErr("frame", convert_frame(msg))]

\* process_from_srv_and_notify_channel, the future made for one frame:
\* tx.clone().send(ListenNextMessage).then(.. from_resp_value(msg)).
\* `fresh`: the future was just created and its sentinel is not yet pushed.
SourceFuture(st, msg, fresh) ==
    IF fresh /\ ~st.rxAlive
    THEN [st |-> [st EXCEPT !.srcFut = NoFrame],
          res |-> PollErr("frame", ResErr("ConnectionError", LISTEN_TEXT))]
    ELSE IF fresh
    THEN source_send_complete(
             [st EXCEPT !.chan = @ + 1, !.parked = sender_parks(st.chan + 1)], msg)
    ELSE source_send_complete(st, msg)

\* AndThen::poll of the source task on the answer `r` of the frame stream
and_then_next(st, r) ==
    CASE r.res = "NotReady" -> [st |-> st, res |-> PollNotReady]
      [] r.res = "None" -> [st |-> [st EXCEPT !.inDone = TRUE], res |-> PollEnd]
      [] r.res = "Some" ->
            SourceFuture([st EXCEPT !.rxQueue = r.rest, !.consumed = @ + 1],
                         r.frame, TRUE)

\* the source task behind Select's Fuse: from_srv.and_then(..)
InputPoll(st) ==
    IF st.inDone THEN [st |-> st, res |-> PollEnd]
    ELSE IF st.srcFut.kind = "Some" THEN SourceFuture(st, st.srcFut.val, FALSE)
    ELSE and_then_next(st, receiver_poll(st.rxQueue, rxClosed))

\* mpsc Receiver::poll: a queued sentinel, the end once every Sender is
\* dropped, NotReady otherwise
rx_poll(queued, txAlive) ==
    IF queued > 0 THEN "Some" ELSE IF txAlive THEN "NotReady" ELSE "None"

\* the Sender `tx` is owned by the and_then closure of the source task and
\* lives as long as the source task does
TxAlive == TRUE

\* a sink task that writes the command twice for one sentinel
rearm_commands_twice(opts) == <<subscribe_cmd(opts), subscribe_cmd(opts)>>

\* a sink task that re-arms with a read of the streams without the group
rearm_commands_ungrouped(opts) == <<subscribe_cmd(SubscribeOptions_new(opts.streams))>>

\* fwd_from_channel_to_srv, line 221: the commands written for one sentinel
rearm_commands(opts) == <<subscribe_cmd(opts)>>

\* a send that takes the pending command and writes nothing
sink_start_send_drop(st) == [st EXCEPT !.sinkItem = FALSE]

\* Sink::send, start_send of the pending command accepted by the sink
sink_start_send(st) ==
    IF st.sinkItem
    THEN [st EXCEPT !.sinkBuf = @ \o rearm_commands(options),
                    !.written = @ + Len(rearm_commands(options)),
                    !.sinkItem = FALSE]
    ELSE st

\* Sink::send, poll_complete answered Ready: what was written reaches the peer
sink_flushed(st) ==
    [st EXCEPT !.srvIn = @ \o st.sinkBuf, !.sinkBuf = <<>>, !.foldState = "Ready"]

\* fwd_from_channel_to_srv: rx.fold(to_srv, |to_srv, msg| to_srv.send(cmd)),
\* one call of Fold::poll; sAns and fAns are the answers of the transport sink
RECURSIVE FoldPoll(_, _, _)
FoldPoll(st, sAns, fAns) ==
    IF st.foldState = "Ready"
    THEN CASE rx_poll(st.chan, TxAlive) = "Some" ->
                FoldPoll([st EXCEPT !.chan = @ - 1, !.parked = FALSE,
                                    !.foldState = "Processing", !.sinkItem = TRUE],
                         sAns, fAns)
           [] rx_poll(st.chan, TxAlive) = "NotReady" -> [st |-> st, res |-> PollNotReady]
           [] rx_poll(st.chan, TxAlive) = "None" -> [st |-> st, res |-> PollNothing]
    ELSE IF st.sinkItem /\ sAns = "Err"
    THEN [st |-> st, res |-> PollErr("sink", ResErr("ConnectionError", IO_TEXT))]
    ELSE IF st.sinkItem /\ sAns = "NotReady"
    THEN [st |-> st, res |-> PollNotReady]
    ELSE IF fAns = "Err"
    THEN [st |-> sink_start_send(st),
          res |-> PollErr("sink", ResErr("ConnectionError", IO_TEXT))]
    ELSE IF fAns = "NotReady"
    THEN [st |-> sink_start_send(st), res |-> PollNotReady]
    ELSE Bind(sink_flushed(sink_start_send(st)), LAMBDA st1 : FoldPoll(st1, sAns, fAns))

\* an into_stream that hands the failure of the sink task on as a value
into_stream_next_as_item(r) ==
    IF r.res.kind = "NotReady" THEN r
    ELSE [st |-> [r.st EXCEPT !.outGone = TRUE, !.rxAlive = FALSE,
                              !.foldState = "Gone"],
          res |-> IF r.res.kind = "Err"
                  THEN [kind |-> "Item", src |-> "sink", val |-> RedisArray(<<>>)]
                  ELSE r.res]

\* IntoStream::poll on the answer `r` of the sink task: a finished or failed
\* task is dropped, and with it the receiving end of the channel
into_stream_next(r) ==
    IF r.res.kind = "NotReady" THEN r
    ELSE [st |-> [r.st EXCEPT !.outGone = TRUE, !.rxAlive = FALSE,
                              !.foldState = "Gone"],
          res |-> r.res]

\* the sink task behind Select's Fuse: output.map(|_| None).into_stream()
OutputPoll(st, sAns, fAns) ==
    IF st.outDone THEN [st |-> st, res |-> PollEnd]
    ELSE IF st.outGone THEN [st |-> [st EXCEPT !.outDone = TRUE], res |-> PollEnd]
    ELSE Bind(FoldPoll(st, sAns, fAns), into_stream_next)

PollSide(side, st, sAns, fAns) ==
    IF side = "input" THEN InputPoll(st) ELSE OutputPoll(st, sAns, fAns)

\* Select::poll, the end: `b` is the answer of the stream polled second
select_join(a_done, b) ==
    CASE b.res.kind = "Err" -> b
      [] b.res.kind \in {"Item", "Nothing"} ->
            [st |-> IF a_done THEN b.st ELSE [b.st EXCEPT !.flag = ~@],
             res |-> b.res]
      [] b.res.kind = "End" /\ a_done -> b
      [] OTHER -> [st |-> b.st, res |-> PollNotReady]

\* Select::poll after the first stream answered `a`
select_second(second, a, sAns, fAns) ==
    IF a.res.kind \in {"Err", "Item", "Nothing"} THEN a
    ELSE Bind(PollSide(second, a.st, sAns, fAns),
              LAMBDA b : select_join(a.res.kind = "End", b))

\* input.select(output.into_stream()), one call of Select::poll
SelectPoll(st, sAns, fAns) ==
    IF st.flag
    THEN Bind(PollSide("output", [st EXCEPT !.flag = ~@], sAns, fAns),
              LAMBDA a : select_second("input", a, sAns, fAns))
    ELSE Bind(PollSide("input", [st EXCEPT !.flag = ~@], sAns, fAns),
              LAMBDA a : select_second("output", a, sAns, fAns))

\* .filter_map(|x| x): the None item of the sink task is skipped and the
\* select is polled again
RECURSIVE FilterMapPoll(_, _, _)
filter_map_next(r, sAns, fAns) ==
    IF r.res.kind = "Nothing" THEN FilterMapPoll(r.st, sAns, fAns) ELSE r

FilterMapPoll(st, sAns, fAns) ==
    Bind(SelectPoll(st, sAns, fAns), LAMBDA r : filter_map_next(r, sAns, fAns))

\* Subscribe::poll: what the consumer is handed for the poll result `res`
subscribe_item(res) ==
    IF res.kind = "Item" THEN [src |-> res.src, res |-> parse_stream_entries(res.val)]
    ELSE [src |-> res.src, res |-> res.val]

\* RedisStream::subscribe: the connection is taken apart and the first read
\* command is given to sender.send(..)
SubInit ==
    /\ owner = "primer"
    /\ options \in OptionsSet
    /\ primerItem = TRUE
    /\ chan = 0
    /\ parked = FALSE
    /\ srcFut = NoFrame
    /\ foldState = "Ready"
    /\ sinkItem = FALSE
    /\ rxAlive = TRUE
    /\ flag = FALSE
    /\ inDone = FALSE
    /\ outDone = FALSE
    /\ outGone = FALSE
    /\ items = <<>>
    /\ ended = FALSE
    /\ request = NoRequest
    /\ is_sent = FALSE
    /\ sinkBuf = <<>>
    /\ srvIn = <<>>
    /\ rxQueue = <<>>
    /\ rxClosed = FALSE
    /\ sends = 0
    /\ offered = 0
    /\ accepted = FALSE
    /\ flushed = FALSE
    /\ rxPolled = FALSE
    /\ written = 0
    /\ delivered = <<>>
    /\ consumed = 0
    /\ results = <<>>
    /\ CodecIdle
    /\ CommandIdle

\* RedisStream::subscribe, sender.send(subscribe_cmd(options)).map(..): one
\* poll of the future; when it is ready the Subscribe stream is built
PrimerPoll(sAns, fAns) ==
    /\ owner = "primer"
    /\ IF primerItem /\ sAns = "Err"
       THEN /\ owner' = "none"
            /\ UNCHANGED <<sinkBuf, srvIn, written, primerItem>>
       ELSE IF primerItem /\ sAns = "NotReady"
       THEN UNCHANGED <<owner, sinkBuf, srvIn, written, primerItem>>
       ELSE
       LET buf1 == IF primerItem THEN Append(sinkBuf, subscribe_cmd(options)) ELSE sinkBuf
           wr1 == IF primerItem THEN written + 1 ELSE written
       IN  /\ primerItem' = FALSE
           /\ written' = wr1
           /\ IF fAns = "Err"
              THEN owner' = "none" /\ sinkBuf' = buf1 /\ srvIn' = srvIn
              ELSE IF fAns = "NotReady"
              THEN owner' = owner /\ sinkBuf' = buf1 /\ srvIn' = srvIn
              ELSE owner' = "subscribe" /\ sinkBuf' = <<>> /\ srvIn' = srvIn \o buf1
    /\ UNCHANGED <<rxQueue, rxClosed, delivered, consumed, sendVars, options, chan,
                   parked, srcFut, foldState, sinkItem, rxAlive, flag, inDone,
                   outDone, outGone, items, ended, codecVars, callVars>>

\* Subscribe::poll: the answer `r` of the inner stream reaches the consumer
subscribe_next(r) ==
    /\ chan' = r.st.chan
    /\ parked' = r.st.parked
    /\ srcFut' = r.st.srcFut
    /\ foldState' = r.st.foldState
    /\ sinkItem' = r.st.sinkItem
    /\ rxAlive' = r.st.rxAlive
    /\ flag' = r.st.flag
    /\ inDone' = r.st.inDone
    /\ outDone' = r.st.outDone
    /\ outGone' = r.st.outGone
    /\ sinkBuf' = r.st.sinkBuf
    /\ srvIn' = r.st.srvIn
    /\ rxQueue' = r.st.rxQueue
    /\ written' = r.st.written
    /\ consumed' = r.st.consumed
    /\ items' = IF r.res.kind \in {"Item", "Err"}
                THEN Append(items, subscribe_item(r.res))
                ELSE items
    /\ ended' = (r.res.kind = "End")

\* Subscribe::poll, one call by the consumer
SubscribePoll(sAns, fAns) ==
    /\ owner = "subscribe"
    /\ ~ended
    /\ \E r \in {FilterMapPoll(SubState, sAns, fAns)} : subscribe_next(r)
    /\ UNCHANGED <<owner, rxClosed, delivered, sendVars, options, primerItem,
                   codecVars, callVars>>

\* the consumer drops the subscription: both tasks and the transport go
ConsumerDrop ==
    /\ owner = "subscribe"
    /\ owner' = "none"
    /\ UNCHANGED <<sinkBuf, srvIn, rxQueue, rxClosed, written, delivered, consumed,
                   sendVars, subVars, codecVars, callVars>>

\* the server answers a read command; it produces MaxFrames frames at most
SubServerReply(f) ==
    /\ Len(delivered) < MaxFrames
    /\ ServerReply(f)

SubNext ==
    \/ \E sAns \in SinkAnswers, fAns \in SinkAnswers : PrimerPoll(sAns, fAns)
    \/ \E sAns \in SinkAnswers, fAns \in SinkAnswers : SubscribePoll(sAns, fAns)
    \/ \E f \in SubReplies : SubServerReply(f)
    \/ PeerClose
    \/ ConsumerDrop

SubSpec == SubInit /\ [][SubNext]_vars

\* the executor polls again, the transport is eventually ready for what it
\* is asked, and the server answers the read commands it has received
FairSubSpec ==
    /\ SubSpec
    /\ WF_vars(PrimerPoll("Ready", "Ready"))
    /\ WF_vars(SubscribePoll("Ready", "Ready"))
    /\ WF_vars(\E f \in SubReplies : SubServerReply(f))

\* the peer writes a reply frame that no read command asked for
PeerPush(f) ==
    /\ owner = "subscribe"
    /\ ~rxClosed
    /\ Len(delivered) < MaxFrames
    /\ rxQueue' = Append(rxQueue, f)
    /\ delivered' = Append(delivered, f)
    /\ UNCHANGED <<owner, sinkBuf, srvIn, rxClosed, written, consumed, sendVars,
                   subVars, codecVars, callVars>>

PushNext ==
    \/ \E sAns \in SinkAnswers, fAns \in SinkAnswers : PrimerPoll(sAns, fAns)
    \/ \E sAns \in SinkAnswers, fAns \in SinkAnswers : SubscribePoll(sAns, fAns)
    \/ \E f \in SubReplies : SubServerReply(f)
    \/ \E f \in SubReplies : PeerPush(f)
    \/ PeerClose
    \/ ConsumerDrop

\* a subscription to a peer that may write frames at any time, also while
\* the re-arm command waits for the transport
PushSubSpec == SubInit /\ [][PushNext]_vars

\* ------------------------------------------------------------ the codec at work

\* the wire values the peer encodes
WireSamples ==
    << RespNil,
       RespError(<<"E">>),
       RespStatus(OK_TEXT),
       RespStatus(<<>>),
       RespInt(-12),
       RespInt(0),
       RespBulkString(<<>>),
       RespBulkString(<<"a", CR, LF>>),
       RespArray(<<>>),
       RespArray(<<RespInt(1), RespArray(<<RespBulkString(<<"b">>), RespError(<<"N">>)>>),
                   RespError(<<"M">>)>>),
       RespArray(<<RespStatus(<<"Q">>), RespArray(<<RespStatus(OK_TEXT)>>)>>),
       RespArray(<<RespStatus(OK_TEXT), RespNil>>) >>

\* bytes the peer writes that are no value of the encoder: the null forms,
\* lengths at the end of the i64 range, truncated and broken lines
RawSamples ==
    << <<"t">>,
       <<CR, LF>>,
       <<"+", "a", CR, LF>>,
       <<"$", "-", "1", CR, LF, CR, LF>>,
       <<"$", "-", "1", "0", CR, LF, "%", "$">>,
       <<"*", "-", "1", CR, LF>>,
       <<"*">> \o I64_MAX_TEXT \o <<CR, LF>>,
       <<"$">> \o I64_MAX_TEXT \o <<CR, LF>>,
       <<"*", "2", CR, LF, "$">> \o I64_MAX_TEXT \o <<CR, LF>>,
       <<":", "9">> \o I64_MAX_TEXT \o <<CR, LF>>,
       <<":", CR, LF>>,
       <<"+", BAD_BYTE, CR, LF>>,
       <<"?", CR, LF>> >>

\* the bytes that may follow a CR in a broken line
BrokenLineBytes == {"x", CR, "$"}

\* the connection part of the state while only the codec is at work
ConnectionIdle ==
    /\ owner = "none"
    /\ request = NoRequest
    /\ is_sent = FALSE
    /\ sinkBuf = <<>>
    /\ srvIn = <<>>
    /\ rxQueue = <<>>
    /\ rxClosed = FALSE
    /\ sends = 0
    /\ offered = 0
    /\ accepted = FALSE
    /\ flushed = FALSE
    /\ rxPolled = FALSE
    /\ written = 0
    /\ delivered = <<>>
    /\ consumed = 0
    /\ results = <<>>
    /\ options = NoOptions
    /\ SubIdle

connVars ==
    <<owner, sinkBuf, srvIn, rxQueue, rxClosed, written, delivered, consumed,
      sendVars, subVars, callVars>>

commandVars == <<cmd, cmdVerb, cmdArgs, dst>>

CodecInit ==
    /\ ConnectionIdle
    /\ CodecIdle
    /\ CommandIdle

\* the process is alive: no call has panicked
Alive == dec.kind # "Panic"

\* RedisCodec::encode on the peer's side: the value goes to the wire
PeerEncode(i) ==
    /\ Alive
    /\ ~trailed
    /\ Len(encoded) < MaxEncoded
    /\ wire' = wire \o encode(WireSamples[i])
    /\ encoded' = Append(encoded, WireSamples[i])
    /\ UNCHANGED <<readBuf, trailed, brokenAt, dec, converted, connVars, commandVars>>

\* the peer writes bytes that are no value of the encoder
PeerRaw(i) ==
    /\ Alive
    /\ ~trailed
    /\ wire' = wire \o RawSamples[i]
    /\ trailed' = TRUE
    /\ UNCHANGED <<readBuf, encoded, brokenAt, dec, converted, connVars, commandVars>>

\* the positions, in the encoding of a value, of the CRs that end a line: of a
\* Status, an Error, an Integer, a length, the data of a BulkString, and of
\* the elements of an Array
RECURSIVE line_ends(_)
RECURSIVE elements_line_ends(_, _, _)
elements_line_ends(x, i, off) ==
    IF i > Len(x) THEN {}
    ELSE { off + p : p \in line_ends(x[i]) }
            \cup elements_line_ends(x, i + 1, off + Len(encode_resp_value(x[i])))

line_ends(value) ==
    CASE value.kind = "Nil" -> {4}
      [] value.kind \in {"Error", "Status"} -> {Len(value.val) + 2}
      [] value.kind = "Int" -> {Len(int_to_text(value.val)) + 2}
      [] value.kind = "BulkString" ->
            { Len(nat_to_text(Len(value.val))) + 2,
              Len(nat_to_text(Len(value.val))) + CRLF_LEN + Len(value.val) + 2 }
      [] value.kind = "Array" ->
            { Len(nat_to_text(Len(value.val))) + 2 }
               \cup elements_line_ends(value.val, 1,
                        Len(nat_to_text(Len(value.val))) + 1 + CRLF_LEN)

\* the peer writes a frame of which the line that ends at byte k is broken:
\* the CR is followed by x and not by LF
PeerBrokenLine(i, k, x) ==
    /\ Alive
    /\ ~trailed
    /\ encoded = <<>>
    /\ k \in line_ends(WireSamples[i])
    /\ brokenAt' = k
    /\ wire' = SubSeq(encode(WireSamples[i]), 1, k) \o <<x>>
                  \o SubSeq(encode(WireSamples[i]), k + 2, Len(encode(WireSamples[i])))
    /\ trailed' = TRUE
    /\ UNCHANGED <<readBuf, encoded, dec, converted, connVars, commandVars>>

\* the framing layer reads n bytes from the transport into the buffer; the
\* outcome of the last call does not describe the new buffer
Arrive(n) ==
    /\ Alive
    /\ n <= Len(wire)
    /\ readBuf' = readBuf \o SubSeq(wire, 1, n)
    /\ wire' = SubSeq(wire, n + 1, Len(wire))
    /\ dec' = NoDecode
    /\ converted' = NoConversion
    /\ UNCHANGED <<encoded, trailed, brokenAt, connVars, commandVars>>

\* RedisCodec::decode, one call by the framing layer
Decode ==
    /\ Alive
    /\ \E r \in {decode(readBuf)} :
          /\ dec' = [kind |-> r.kind, value |-> r.value, len |-> r.len,
                     before |-> readBuf, rest |-> r.rest]
          /\ readBuf' = r.rest
    /\ converted' = NoConversion
    /\ UNCHANGED <<wire, encoded, trailed, brokenAt, connVars, commandVars>>

\* RespInternalValue::into_redis_value on the frame decoded last
Convert ==
    /\ dec.kind = "Frame"
    /\ converted' = into_redis_value(dec.value)
    /\ UNCHANGED <<wire, readBuf, encoded, trailed, brokenAt, dec, connVars, commandVars>>

CodecNext ==
    \/ \E i \in 1..Len(WireSamples) : PeerEncode(i)
    \/ \E i \in 1..Len(RawSamples) : PeerRaw(i)
    \/ \E i \in 1..Len(WireSamples) :
          \E k \in 1..Len(encode(WireSamples[i])), x \in BrokenLineBytes :
             PeerBrokenLine(i, k, x)
    \/ \E n \in 1..Len(wire) : Arrive(n)
    \/ Decode
    \/ Convert

CodecSpec == CodecInit /\ [][CodecNext]_vars

\* ------------------------------------------------------- building a command

\* the width of i64; an integer of this section is the sequence of its bits,
\* the most significant first
I64_BITS == 64

\* the integer types that have an IntoRedisArgument impl (usize as on a
\* 64-bit target)
IntTypes ==
    << [name |-> "u8", bits |-> 8, signed |-> FALSE],
       [name |-> "i8", bits |-> 8, signed |-> TRUE],
       [name |-> "u16", bits |-> 16, signed |-> FALSE],
       [name |-> "i16", bits |-> 16, signed |-> TRUE],
       [name |-> "u32", bits |-> 32, signed |-> FALSE],
       [name |-> "i32", bits |-> 32, signed |-> TRUE],
       [name |-> "i64", bits |-> 64, signed |-> TRUE],
       [name |-> "u64", bits |-> 64, signed |-> FALSE],
       [name |-> "usize", bits |-> 64, signed |-> FALSE] >>

\* the number of bits the conversion to decimal takes at a time
LIMB_BITS == 16

\* the number a short run of bits is
RECURSIVE bits_value(_, _)
bits_value(bits, n) ==
    IF n = 0 THEN 0 ELSE 2 * bits_value(bits, n - 1) + bits[n]

\* the digits of a number, the least significant first; none for zero
RECURSIVE nat_digits(_)
nat_digits(n) == IF n = 0 THEN <<>> ELSE <<n % 10>> \o nat_digits(n \div 10)

\* k times a decimal number plus carry; the digits are the least
\* significant first
RECURSIVE dec_scale_add(_, _, _, _)
dec_scale_add(d, i, k, carry) ==
    IF i > Len(d) THEN nat_digits(carry)
    ELSE <<(k * d[i] + carry) % 10>>
         \o Bind((k * d[i] + carry) \div 10, LAMBDA c : dec_scale_add(d, i + 1, k, c))

\* the decimal digits of the unsigned number the bits are
RECURSIVE bits_to_dec(_, _)
bits_to_dec(bits, acc) ==
    IF bits = <<>> THEN acc
    ELSE Bind(IF Len(bits) % LIMB_BITS = 0 THEN LIMB_BITS ELSE Len(bits) % LIMB_BITS,
              LAMBDA n :
           Bind(dec_scale_add(acc, 1, 2 ^ n, bits_value(SubSeq(bits, 1, n), n)),
                LAMBDA scaled :
             Bind(SubSeq(bits, n + 1, Len(bits)), LAMBDA rest : bits_to_dec(rest, scaled))))

\* u64::to_string of the bits
unsigned_to_string(bits) ==
    Bind(bits_to_dec(bits, <<>>), LAMBDA d :
      IF d = <<>> THEN <<"0">>
      ELSE [i \in 1..Len(d) |-> DIGITS[d[Len(d) + 1 - i] + 1]])

\* the bits plus one, modulo two to the number of bits
bits_increment(bits) ==
    IF \A i \in 1..Len(bits) : bits[i] = 1 THEN [i \in 1..Len(bits) |-> 0]
    ELSE Bind(CHOOSE k \in 1..Len(bits) :
                 bits[k] = 0 /\ \A i \in (k + 1)..Len(bits) : bits[i] = 1,
              LAMBDA k : [i \in 1..Len(bits) |->
                            IF i < k THEN bits[i] ELSE IF i = k THEN 1 ELSE 0])

\* two's complement negation
bits_negate(bits) == bits_increment([i \in 1..Len(bits) |-> 1 - bits[i]])

\* to_string of a signed integer of as many bits
signed_to_string(bits) ==
    IF bits[1] = 1 THEN <<"-">> \o unsigned_to_string(bits_negate(bits))
    ELSE unsigned_to_string(bits)

\* `self as i64`: a narrower signed value is sign-extended, a narrower
\* unsigned one zero-extended, and 64 bits are taken as they are
as_i64(type, bits) ==
    [i \in 1..(I64_BITS - Len(bits)) |-> IF type.signed THEN bits[1] ELSE 0] \o bits

\* RedisArgument: Int holds a number of the model, Int64 the bits of an i64
ArgInt64(bits) == [kind |-> "Int64", val |-> bits]
ArgInt(x) == [kind |-> "Int", val |-> x]
ArgString(x) == [kind |-> "String", val |-> x]
ArgBytes(x) == [kind |-> "Bytes", val |-> x]

\* RedisArgument::into_resp_value
argument_into_resp_value(a) ==
    IF a.kind = "Int" THEN RespBulkString(int_to_text(a.val))
    ELSE IF a.kind = "Int64" THEN RespBulkString(signed_to_string(a.val))
    ELSE RespBulkString(a.val)

\* declare_to_int_argument: RedisArgument::Int(self as i64)
into_redis_argument(type, bits) == ArgInt64(as_i64(type, bits))

\* RedisCommand::arg_mut, for every type of argument
arg_mut(c, a) == Append(c, argument_into_resp_value(a))

\* RedisCommand::new() followed by arg_mut for every argument of x
RECURSIVE command_of_args(_, _)
command_of_args(c, x) ==
    IF x = <<>> THEN c ELSE command_of_args(arg_mut(c, Head(x)), Tail(x))

\* the verbs, the arguments and the other commands of the model
Verbs == << <<"S", "E", "T">>, <<>> >>

ArgSamples ==
    << ArgString(<<"k">>),
       ArgString(<<>>),
       ArgInt(-12),
       ArgInt(0),
       ArgBytes(<<BAD_BYTE, CR, LF>>) >>

OtherSamples ==
    << <<>>,
       <<ArgString(<<"$">>)>>,
       <<ArgInt(7), ArgString(<<"k">>)>> >>

CmdInit ==
    /\ ConnectionIdle
    /\ CodecIdle
    /\ CommandIdle

\* command(verb)
CmdNew(v) ==
    /\ cmdVerb = <<>>
    /\ cmd' = command(Verbs[v])
    /\ cmdVerb' = <<Verbs[v]>>
    /\ UNCHANGED <<cmdArgs, dst, connVars, wire, readBuf, encoded, trailed,
                   brokenAt, dec, converted>>

\* RedisCommand::arg and RedisCommand::arg_mut
CmdArg(i) ==
    /\ cmdVerb # <<>>
    /\ dst = <<>>
    /\ Len(cmdArgs) < MaxArgs
    /\ cmd' = arg_mut(cmd, ArgSamples[i])
    /\ cmdArgs' = Append(cmdArgs, ArgSamples[i])
    /\ UNCHANGED <<cmdVerb, dst, connVars, wire, readBuf, encoded, trailed,
                   brokenAt, dec, converted>>

\* RedisCommand::append of a command built with new() and arg_mut
CmdAppend(j) ==
    /\ cmdVerb # <<>>
    /\ dst = <<>>
    /\ Len(cmdArgs) + Len(OtherSamples[j]) <= MaxArgs
    /\ cmd' = append(cmd, command_of_args(<<>>, OtherSamples[j]))
    /\ cmdArgs' = cmdArgs \o OtherSamples[j]
    /\ UNCHANGED <<cmdVerb, dst, connVars, wire, readBuf, encoded, trailed,
                   brokenAt, dec, converted>>

\* RedisCodec::encode of the command
CmdEncode ==
    /\ cmdVerb # <<>>
    /\ dst = <<>>
    /\ dst' = dst \o encode(into_resp_value(cmd))
    /\ UNCHANGED <<cmd, cmdVerb, cmdArgs, connVars, wire, readBuf, encoded,
                   trailed, brokenAt, dec, converted>>

CmdNext ==
    \/ \E v \in 1..Len(Verbs) : CmdNew(v)
    \/ \E i \in 1..Len(ArgSamples) : CmdArg(i)
    \/ \E j \in 1..Len(OtherSamples) : CmdAppend(j)
    \/ CmdEncode

CmdSpec == CmdInit /\ [][CmdNext]_vars

\* ------------------------------------------------- operations of the library

\* the integer target shapes of FromRedisValue: width in bits, signedness
\* (isize and usize as on a 64-bit target)
IntShape(bits, signed) == [bits |-> bits, signed |-> signed]

IntShapes ==
    << IntShape(8, FALSE), IntShape(8, TRUE), IntShape(16, FALSE), IntShape(16, TRUE),
       IntShape(32, FALSE), IntShape(32, TRUE), IntShape(64, FALSE), IntShape(64, TRUE) >>

\* one step of the division of a decimal number by 256: <<quotient, remainder>>
RECURSIVE div256(_, _, _)
div256(d, r, q) ==
    IF d = <<>> THEN <<strip_zeros(q), r>>
    ELSE Call3(div256, Tail(d), (r * 10 + DigitValue(Head(d))) % 256,
               Append(q, DIGITS[((r * 10 + DigitValue(Head(d))) \div 256) + 1]))

\* the n low-order bytes of a natural number given by its decimal digits,
\* least significant byte first
RECURSIVE mag_le_bytes(_, _)
mag_le_bytes(d, n) ==
    IF n = 0 THEN <<>>
    ELSE Bind(div256(d, 0, <<>>), LAMBDA qr : <<qr[2]>> \o mag_le_bytes(qr[1], n - 1))

\* two's complement negation of a little-endian byte sequence
RECURSIVE neg_le_bytes(_, _)
neg_le_bytes(b, carry) ==
    IF b = <<>> THEN <<>>
    ELSE <<(255 - Head(b) + carry) % 256>>
            \o neg_le_bytes(Tail(b), (255 - Head(b) + carry) \div 256)

\* the two's complement representation, in n bytes, of the integer with the
\* given sign and decimal magnitude
int_le_bytes(neg, mag, n) ==
    IF neg THEN neg_le_bytes(mag_le_bytes(mag, n), 1) ELSE mag_le_bytes(mag, n)

\* an i64 of the model as its 8 bytes
i64_le_bytes(x) ==
    int_le_bytes(x < 0, nat_to_text(IF x < 0 THEN 0 - x ELSE x), 8)

\* a cast that keeps the high-order bytes
convert_from_int_high(val, shape) ==
    SubSeq(i64_le_bytes(val), 8 - (shape.bits \div 8) + 1, 8)

\* ToIntConvertible::convert_from_int: val as $itype keeps the low-order bytes
convert_from_int(val, shape) == SubSeq(i64_le_bytes(val), 1, shape.bits \div 8)

\* <$itype>::MAX and the magnitude of <$itype>::MIN as decimal text
int_max_text(shape) ==
    CASE shape.bits = 8 /\ ~shape.signed -> nat_to_text(255)
      [] shape.bits = 8 /\ shape.signed -> nat_to_text(127)
      [] shape.bits = 16 /\ ~shape.signed -> nat_to_text(65535)
      [] shape.bits = 16 /\ shape.signed -> nat_to_text(32767)
      [] shape.bits = 32 /\ ~shape.signed -> nat_to_text(42949) \o nat_to_text(67295)
      [] shape.bits = 32 /\ shape.signed -> nat_to_text(2147483647)
      [] shape.bits = 64 /\ ~shape.signed ->
            nat_to_text(184467440) \o nat_to_text(737095516) \o nat_to_text(15)
      [] shape.bits = 64 /\ shape.signed -> I64_MAX_TEXT

int_min_text(shape) ==
    CASE ~shape.signed -> nat_to_text(0)
      [] shape.bits = 8 -> nat_to_text(128)
      [] shape.bits = 16 -> nat_to_text(32768)
      [] shape.bits = 32 -> nat_to_text(21474) \o nat_to_text(83648)
      [] shape.bits = 64 -> I64_MIN_TEXT

\* ToIntConvertible::convert_from_str: str::parse::<$itype>: an optional '+'
\* (and '-' for a signed type), one or more decimal digits, and the value
\* within the range of the type
convert_from_str(val, shape) ==
    Bind(IF val # <<>> /\ (Head(val) = "+" \/ (Head(val) = "-" /\ shape.signed))
         THEN Tail(val) ELSE val,
         LAMBDA body :
           IF body = <<>> \/ \E i \in 1..Len(body) : ~IsDigit(body[i])
           THEN ResErr("ParseIntError", <<"digit">>)
           ELSE Bind(I64(Head(val) = "-", strip_zeros(body)), LAMBDA n :
                  IF dec_leq(n.mag, IF n.neg THEN int_min_text(shape)
                                    ELSE int_max_text(shape))
                  THEN ResOk(int_le_bytes(n.neg, n.mag, shape.bits \div 8))
                  ELSE ResErr("ParseIntError", <<"overflow">>)))

\* int_from_redis_value
int_from_redis_value(value, shape) ==
    CASE value.kind = "Int" -> ResOk(convert_from_int(value.val, shape))
      [] value.kind = "BulkString" ->
            IF IsUtf8(value.val)
            THEN Bind(convert_from_str(value.val, shape), LAMBDA r :
                   IF r.ok THEN r ELSE conversion_error_from_value(<<"i64">>))
            ELSE conversion_error_from_value(<<"i64">>)
      [] OTHER -> conversion_error_from_value(<<"i64">>)

\* the wire Integers converted in the model
IntSamples ==
    << 0, 1, -1, 127, 128, -128, -129, 255, 256, 300, 32767, 32768, -32768,
       -32769, 65535, 65536, 999999999, -999999999 >>

\* further values converted to an integer shape
IntTextSamples ==
    << RedisBulkString(<<"+", "7">>),
       RedisBulkString(<<"0", "0", "7">>),
       RedisBulkString(<<"-", "0">>),
       RedisBulkString(<<>>),
       RedisBulkString(<<"-">>),
       RedisBulkString(<<"1", "x">>),
       RedisBulkString(<<BAD_BYTE>>),
       RedisBulkString(I64_MAX_TEXT),
       RedisBulkString(<<"-">> \o I64_MIN_TEXT),
       RedisBulkString(int_max_text(IntShape(64, FALSE))),
       RedisBulkString(int_max_text(IntShape(32, FALSE))),
       RedisNil,
       RedisOk,
       RedisStatus(<<"1">>),
       RedisArray(<<RedisInt(1)>>) >>

\* everything but the record of the last call
libraryFrame ==
    <<owner, sinkBuf, srvIn, rxQueue, rxClosed, written, delivered, consumed,
      sendVars, subVars, codecVars>>

\* from_redis_value::<$itype> of a wire Integer
IntFromInt(i, t) ==
    /\ callIn.op = "none"
    /\ callIn' = [op |-> "int_from_redis_value",
                  arg |-> [value |-> RedisInt(IntSamples[i]), shape |-> IntShapes[t]]]
    /\ callOut' = <<"int_from_redis_value",
                    int_from_redis_value(RedisInt(IntSamples[i]), IntShapes[t])>>
    /\ UNCHANGED libraryFrame

\* from_redis_value::<$itype> of the BulkString that holds the decimal text
\* of an integer
IntFromText(i, t) ==
    /\ callIn.op = "none"
    /\ callIn' = [op |-> "int_from_redis_value",
                  arg |-> [value |-> RedisBulkString(int_to_text(IntSamples[i])),
                           shape |-> IntShapes[t]]]
    /\ callOut' = <<"int_from_redis_value",
                    int_from_redis_value(RedisBulkString(int_to_text(IntSamples[i])),
                                         IntShapes[t])>>
    /\ UNCHANGED libraryFrame

\* from_redis_value::<$itype> of any other value
IntFromOther(i, t) ==
    /\ callIn.op = "none"
    /\ callIn' = [op |-> "int_from_redis_value",
                  arg |-> [value |-> IntTextSamples[i], shape |-> IntShapes[t]]]
    /\ callOut' = <<"int_from_redis_value",
                    int_from_redis_value(IntTextSamples[i], IntShapes[t])>>
    /\ UNCHANGED libraryFrame

\* the field arrays of the entry a read reply holds
FieldSamples ==
    << <<>>,
       <<RespBulkString(<<"a">>), RespBulkString(<<"1">>)>>,
       <<RespBulkString(<<"a">>), RespBulkString(<<"1">>),
         RespBulkString(<<"b">>), RespInt(2)>>,
       <<RespBulkString(<<"a">>), RespBulkString(<<"1">>),
         RespBulkString(<<"a">>), RespBulkString(<<"2">>)>>,
       <<RespBulkString(<<"a">>), RespBulkString(<<"1">>),
         RespBulkString(<<"b">>), RespInt(2),
         RespStatus(<<"a">>), RespNil>>,
       <<RespBulkString(<<"a">>)>>,
       <<RespInt(1), RespBulkString(<<"1">>)>> >>

\* the entry ids of the replies and of the calls of the model, as text
IdTextSamples ==
    << <<"1", "-", "0">>,
       <<"0", "-", "0">>,
       <<"1", "2", "-", "3", "4">>,
       <<"0", "0", "7", "-", "0", "1">>,
       <<"1">>,
       <<>>,
       <<"-">>,
       <<"1", "-">>,
       <<"-", "1">>,
       <<"1", "-", "2", "-", "3">>,
       <<"1", "-", "-", "2">>,
       <<"-", "1", "-", "2">>,
       <<"1", "-", "2", "-">>,
       <<"+", "1", "-", "2">>,
       <<"1", "-", "+", "2">>,
       <<"a", "-", "1">>,
       <<"1", "-", "b">>,
       <<"1", " ", "-", "2">>,
       <<"1", "2">> >>

\* EntryId::new
EntryId_new(ms, id) == <<ms, id>>

\* EntryId::to_string: format!("{}-{}", ms, id)
EntryId_to_string(id) == nat_to_text(id[1]) \o <<"-">> \o nat_to_text(id[2])

\* Ord of u64
u64_cmp(a, b) == IF a < b THEN "Less" ELSE IF a = b THEN "Equal" ELSE "Greater"

\* an ordering that looks at the second component first
EntryId_partial_cmp_id_first(x, y) ==
    IF u64_cmp(x[2], y[2]) # "Equal" THEN u64_cmp(x[2], y[2]) ELSE u64_cmp(x[1], y[1])

\* #[derive(PartialOrd)] of EntryId((u64, u64)): the order of the pair
EntryId_partial_cmp(x, y) ==
    IF u64_cmp(x[1], y[1]) # "Equal" THEN u64_cmp(x[1], y[1]) ELSE u64_cmp(x[2], y[2])

\* the components of the entry ids of the model
ComponentSamples == <<0, 1, 7, 10, 999999999>>

\* EntryId::from_string of the to_string of an entry id
EntryIdToFromString(a, b) ==
    /\ callIn.op = "none"
    /\ callIn' = [op |-> "EntryId_to_string",
                  arg |-> EntryId_new(ComponentSamples[a], ComponentSamples[b])]
    /\ \E text \in {EntryId_to_string(EntryId_new(ComponentSamples[a], ComponentSamples[b]))} :
          callOut' = <<"EntryId_to_string",
                       [text |-> text, parsed |-> EntryId_from_string(text)]>>
    /\ UNCHANGED libraryFrame

\* the comparison of two entry ids
EntryIdCompare(a, b, c, d) ==
    /\ callIn.op = "none"
    /\ callIn' = [op |-> "EntryId_partial_cmp",
                  arg |-> <<EntryId_new(a, b), EntryId_new(c, d)>>]
    /\ callOut' = <<"EntryId_partial_cmp",
                    EntryId_partial_cmp(EntryId_new(a, b), EntryId_new(c, d))>>
    /\ UNCHANGED libraryFrame

COUNT == <<"C", "O", "U", "N", "T">>

\* ReadExplicitOptions::new
ReadExplicitOptions_new(stream, start_id, count) ==
    [streams |-> << <<stream, start_id>> >>, count |-> count]

\* ReadExplicitOptions::add_stream
add_stream(opts, stream, start_id) ==
    [opts EXCEPT !.streams = Append(@, <<stream, start_id>>)]

\* a loop that puts the start id of a stream right after its name
RECURSIVE read_explicit_cmd_pairs(_, _, _)
read_explicit_cmd_pairs(streams, c, ids_cmd) ==
    IF streams = <<>> THEN append(c, ids_cmd)
    ELSE read_explicit_cmd_pairs(Tail(streams),
                                 arg(arg(c, Head(streams)[1]),
                                     EntryId_to_string(Head(streams)[2])),
                                 ids_cmd)

\* read_explicit_cmd, the loop over the streams: names go to cmd, start ids
\* go to ids_cmd
RECURSIVE read_explicit_cmd_streams(_, _, _)
read_explicit_cmd_streams(streams, c, ids_cmd) ==
    IF streams = <<>> THEN append(c, ids_cmd)
    ELSE read_explicit_cmd_streams(Tail(streams),
                                   arg(c, Head(streams)[1]),
                                   arg(ids_cmd, EntryId_to_string(Head(streams)[2])))

\* read_explicit_cmd
read_explicit_cmd(opts) ==
    read_explicit_cmd_streams(
        opts.streams,
        arg(arg_mut(arg(command(XREAD), COUNT), ArgInt(opts.count)), STREAMS),
        <<>>)

\* the lists of stream names and the groups of the subscribe commands
StreamListSamples ==
    { <<>>, << <<"s">> >>, << <<"s">>, <<"t">> >>, << <<"t">>, <<"s">> >>,
      << <<"s">>, <<"t">>, <<"u">> >>, << <<"s">>, <<"s">> >> }

GroupSamples == { NoGroup, SomeGroup(<<"g">>, <<"c">>), SomeGroup(<<"h">>, <<>>) }

\* the options of the explicit reads: one, two and three streams
ReadExplicitOptionsSamples ==
    { ReadExplicitOptions_new(<<"s">>, EntryId_new(0, 0), 2),
      ReadExplicitOptions_new(<<"t">>, EntryId_new(10, 7), 0),
      add_stream(ReadExplicitOptions_new(<<"s">>, EntryId_new(1, 0), 2),
                 <<"t">>, EntryId_new(2, 7)),
      add_stream(ReadExplicitOptions_new(<<"t">>, EntryId_new(2, 7), 10),
                 <<"s">>, EntryId_new(1, 0)),
      add_stream(add_stream(ReadExplicitOptions_new(<<"s">>, EntryId_new(1, 0), 2),
                            <<"t">>, EntryId_new(2, 7)),
                 <<"u">>, EntryId_new(0, 10)) }

\* subscribe_cmd
SubscribeCmd(streams, group) ==
    /\ callIn.op = "none"
    /\ \E opts \in { IF group.kind = "Some"
                      THEN SubscribeOptions_with_group(streams, group)
                      ELSE SubscribeOptions_new(streams) } :
          /\ callIn' = [op |-> "subscribe_cmd", arg |-> opts]
          /\ callOut' = <<"subscribe_cmd", subscribe_cmd(opts)>>
    /\ UNCHANGED libraryFrame

\* read_explicit_cmd
ReadExplicitCmd(opts) ==
    /\ callIn.op = "none"
    /\ callIn' = [op |-> "read_explicit_cmd", arg |-> opts]
    /\ callOut' = <<"read_explicit_cmd", read_explicit_cmd(opts)>>
    /\ UNCHANGED libraryFrame

\* enum RangeType
RangeType_Any == [kind |-> "Any", left |-> <<>>, right |-> <<>>]
GreaterThan(left) == [kind |-> "GreaterThan", left |-> left, right |-> <<>>]
LessThan(right) == [kind |-> "LessThan", left |-> <<>>, right |-> right]
GreaterLessThan(left, right) == [kind |-> "GreaterLessThan", left |-> left, right |-> right]

\* a validity that lets equal bounds pass
is_valid_or_equal(range) ==
    IF range.kind = "GreaterLessThan"
    THEN EntryId_partial_cmp(range.left, range.right) # "Greater"
    ELSE TRUE

\* RangeType::is_valid: left < right
is_valid(range) ==
    IF range.kind = "GreaterLessThan"
    THEN EntryId_partial_cmp(range.left, range.right) = "Less"
    ELSE TRUE

\* RangeType::to_left_right
to_left_right(range) ==
    CASE range.kind = "Any" -> << <<"-">>, <<"+">> >>
      [] range.kind = "GreaterThan" -> <<EntryId_to_string(range.left), <<"+">>>>
      [] range.kind = "LessThan" -> << <<"-">>, EntryId_to_string(range.right)>>
      [] range.kind = "GreaterLessThan" ->
            <<EntryId_to_string(range.left), EntryId_to_string(range.right)>>

\* Option<u16>
NoCount == [kind |-> "None", val |-> 0]
SomeCount(n) == [kind |-> "Some", val |-> n]

INVALID_RANGE == <<"Left bound should be less than right bound">>

\* RangeOptions::new
RangeOptions_new(stream, count, range) ==
    IF ~is_valid(range) THEN ResErr("InvalidOptions", INVALID_RANGE)
    ELSE ResOk([stream |-> stream, count |-> count, range |-> range])

\* PendingOptions::new
PendingOptions_new(stream, group, consumer, range) ==
    IF ~is_valid(range) THEN ResErr("InvalidOptions", INVALID_RANGE)
    ELSE ResOk([stream |-> stream, group |-> group, consumer |-> consumer,
                range |-> range, count |-> NoCount])

\* PendingOptions::with_count
PendingOptions_with_count(stream, group, consumer, range, count) ==
    IF ~is_valid(range) THEN ResErr("InvalidOptions", INVALID_RANGE)
    ELSE ResOk([stream |-> stream, group |-> group, consumer |-> consumer,
                range |-> range, count |-> SomeCount(count)])

\* the ranges of the model
BoundSamples == <<EntryId_new(0, 0), EntryId_new(0, 10), EntryId_new(1, 0)>>

RangeSamples ==
    {RangeType_Any}
    \cup {GreaterThan(BoundSamples[a]) : a \in {1, 3}}
    \cup {LessThan(BoundSamples[a]) : a \in {1, 3}}
    \cup {GreaterLessThan(BoundSamples[a], BoundSamples[b]) : a, b \in 1..Len(BoundSamples)}

RangeOptionsNew(range) ==
    /\ callIn.op = "none"
    /\ callIn' = [op |-> "RangeOptions_new", arg |-> range]
    /\ callOut' = <<"RangeOptions_new", RangeOptions_new(<<"s">>, 2, range)>>
    /\ UNCHANGED libraryFrame

PendingOptionsNew(range) ==
    /\ callIn.op = "none"
    /\ callIn' = [op |-> "PendingOptions_new", arg |-> range]
    /\ callOut' = <<"PendingOptions_new",
                    PendingOptions_new(<<"s">>, <<"g">>, <<"c">>, range)>>
    /\ UNCHANGED libraryFrame

PendingOptionsWithCount(range) ==
    /\ callIn.op = "none"
    /\ callIn' = [op |-> "PendingOptions_with_count", arg |-> range]
    /\ callOut' = <<"PendingOptions_with_count",
                    PendingOptions_with_count(<<"s">>, <<"g">>, <<"c">>, range, 2)>>
    /\ UNCHANGED libraryFrame

\* EntryId::from_string of a text
EntryIdFromString(i) ==
    /\ callIn.op = "none"
    /\ callIn' = [op |-> "EntryId_from_string", arg |-> IdTextSamples[i]]
    /\ callOut' = <<"EntryId_from_string", EntryId_from_string(IdTextSamples[i])>>
    /\ UNCHANGED libraryFrame

\* parse_stream_entries of the converted reply that holds one stream with one
\* entry
ParseStreamEntries(i, f) ==
    /\ callIn.op = "none"
    /\ callIn' = [op |-> "parse_stream_entries",
                  arg |-> [id |-> IdTextSamples[i], fields |-> FieldSamples[f]]]
    /\ \E v \in {from_resp_value(ReplyBatch(<<"s">>, IdTextSamples[i], FieldSamples[f]))} :
          callOut' = <<"parse_stream_entries",
                       IF v.ok THEN parse_stream_entries(v.val) ELSE v>>
    /\ UNCHANGED libraryFrame

XACK == <<"X", "A", "C", "K">>
XPENDING == <<"X", "P", "E", "N", "D", "I", "N", "G">>
XGROUP == <<"X", "G", "R", "O", "U", "P">>
CREATE == <<"C", "R", "E", "A", "T", "E">>
BUSYGROUP == <<"B", "U", "S", "Y", "G", "R", "O", "U", "P">>
EXPECT_INTEGER == <<"Expect integer reply on XACK request">>

AckOptions_new(stream, group, entry_id) ==
    [stream |-> stream, group |-> group, entry_id |-> entry_id]
TouchGroupOptions_new(stream, group) == [stream |-> stream, group |-> group]

\* ack_entry_command
ack_entry_command(opts) ==
    arg(arg(arg(command(XACK), opts.stream), opts.group),
        EntryId_to_string(opts.entry_id))

\* pending_list_command
pending_list_command(opts) ==
    LET left_right == to_left_right(opts.range)
        cmd0 == arg(arg(arg(arg(command(XPENDING), opts.stream), opts.group),
                        left_right[1]), left_right[2])
        cmd1 == IF opts.count.kind = "Some"
                THEN arg_mut(cmd0, ArgInt(opts.count.val))
                ELSE cmd0
    IN arg(cmd1, opts.consumer)

\* touch_group_command
touch_group_command(opts) ==
    arg(arg(arg(arg(command(XGROUP), CREATE), opts.stream), opts.group), <<"$">>)

\* AckResponse::new
AckResponse_new(count_acknowledged) ==
    IF count_acknowledged = 0 THEN "NotExists" ELSE "Ok"

\* str::contains
contains(text, pattern) ==
    \E k \in 1..(Len(text) - Len(pattern) + 1) :
       SubSeq(text, k, k + Len(pattern) - 1) = pattern

\* what the Send future of a request ends with, for what the transport did:
\* the sink failed, or the receiver failed, ended, or gave a frame
send_result(answer) ==
    IF answer.res = "Err" THEN ResErr(answer.frame.kind, answer.frame.val)
    ELSE send_outcome(answer)

\* an AckResponse that does not tell zero from the other counts
ack_entry_any_count(sent) ==
    IF ~sent.ok THEN sent
    ELSE IF sent.val.kind = "Int"
         THEN ResOk([facade |-> "RedisStream", response |-> "Ok"])
         ELSE ResErr("ParseError", EXPECT_INTEGER)

\* RedisStream::ack_entry, the closure given to and_then
ack_entry(sent) ==
    IF ~sent.ok THEN sent
    ELSE IF sent.val.kind = "Int"
         THEN ResOk([facade |-> "RedisStream", response |-> AckResponse_new(sent.val.val)])
         ELSE ResErr("ParseError", EXPECT_INTEGER)

\* RedisStream::pending_entries, the closure given to and_then
pending_entries(sent) ==
    IF ~sent.ok THEN sent
    ELSE Bind(parse_stream_entries(sent.val), LAMBDA entries :
           IF ~entries.ok THEN entries
           ELSE ResOk([facade |-> "RedisStream", entries |-> entries.val]))

\* RedisStream::touch_group, the closure given to then
touch_group(sent) ==
    IF sent.ok THEN ResOk(<<>>)
    ELSE IF sent.kind = "ReceiveError" /\ contains(sent.val, BUSYGROUP) THEN ResOk(<<>>)
    ELSE sent

\* what the transport does with a request: the frame it gives back, the end
\* of the stream, or a failure of the sink or of the receiver
Answered(frame) == [res |-> "Some", frame |-> frame]
Closed == [res |-> "None", frame |-> RespNil]
Failed(kind, desc) == [res |-> "Err", frame |-> [kind |-> kind, val |-> desc]]

\* the answers to XACK and to XGROUP CREATE
AnswerSamples ==
    << Answered(RespInt(0)),
       Answered(RespInt(1)),
       Answered(RespInt(2)),
       Answered(RespInt(-1)),
       Answered(RespStatus(OK_TEXT)),
       Answered(RespStatus(<<"1">>)),
       Answered(RespNil),
       Answered(RespBulkString(<<"1">>)),
       Answered(RespBulkString(BUSYGROUP)),
       Answered(RespArray(<<>>)),
       Answered(RespArray(<<RespInt(1)>>)),
       Answered(RespArray(<<RespInt(1), RespError(<<"E">>)>>)),
       Answered(RespArray(<<RespError(<<"E", " ">> \o BUSYGROUP)>>)),
       Answered(RespError(<<"E">>)),
       Answered(RespError(<<>>)),
       Answered(RespError(BUSYGROUP)),
       Answered(RespError(BUSYGROUP \o <<" ", "x">>)),
       Answered(RespError(<<"E", " ">> \o BUSYGROUP)),
       Answered(RespError(<<"E", " ">> \o BUSYGROUP \o <<" ", "x">>)),
       Answered(RespError(<<"B", "U", "S", "Y">>)),
       Answered(RespError(<<"b", "u", "s", "y", "g", "r", "o", "u", "p">>)),
       Closed,
       Failed("ConnectionError", IO_TEXT),
       Failed("ParseError", BUSYGROUP) >>

\* the answers to XPENDING
PendingAnswerSamples ==
    << Answered(ReplyBatch(<<"s">>, <<"1", "-", "0">>,
                           <<RespBulkString(<<"a">>), RespBulkString(<<"1">>)>>)),
       Answered(ReplyBatch(<<"s">>, <<"1", "x", "0">>,
                           <<RespBulkString(<<"a">>), RespBulkString(<<"1">>)>>)),
       Answered(RespArray(<<>>)),
       Answered(RespArray(<<RespArray(<<RespBulkString(<<"1", "-", "0">>),
                                        RespBulkString(<<"c">>),
                                        RespInt(5), RespInt(1)>>)>>)),
       Answered(RespNil),
       Answered(RespInt(1)),
       Answered(RespError(<<"E">>)),
       Closed,
       Failed("ConnectionError", IO_TEXT) >>

\* the entry ids and the names the calls of the model are made with
AckOptionsSamples ==
    { AckOptions_new(<<"s">>, <<"g">>, EntryId_new(1, 0)),
      AckOptions_new(<<"t">>, <<"h">>, EntryId_new(10, 7)) }

TouchGroupOptionsSamples ==
    { TouchGroupOptions_new(<<"s">>, <<"g">>), TouchGroupOptions_new(<<"t">>, <<>>) }

\* the pending options are the ones a constructor returned
PendingOptionsSamples ==
    { made.val :
        made \in { r \in { PendingOptions_new(<<"s">>, <<"g">>, <<"c">>, RangeType_Any),
                           PendingOptions_new(<<"s">>, <<"g">>, <<"c">>,
                               GreaterLessThan(EntryId_new(0, 10), EntryId_new(1, 0))),
                           PendingOptions_with_count(<<"t">>, <<"h">>, <<"d">>,
                               GreaterThan(EntryId_new(1, 0)), 2),
                           PendingOptions_with_count(<<"t">>, <<"h">>, <<"d">>,
                               LessThan(EntryId_new(1, 0)), 10) } : r.ok } }

\* RedisStream::ack_entry: the request goes to Send, the closure gets what
\* Send ends with
AckEntry(opts, i) ==
    /\ callIn.op = "none"
    /\ callIn' = [op |-> "ack_entry",
                  arg |-> [options |-> opts, answer |-> AnswerSamples[i]]]
    /\ callOut' = <<"ack_entry",
                    [request |-> ack_entry_command(opts),
                     result |-> ack_entry(send_result(AnswerSamples[i]))]>>
    /\ UNCHANGED libraryFrame

\* RedisStream::pending_entries
PendingEntries(opts, i) ==
    /\ callIn.op = "none"
    /\ callIn' = [op |-> "pending_entries",
                  arg |-> [options |-> opts, answer |-> PendingAnswerSamples[i]]]
    /\ callOut' = <<"pending_entries",
                    [request |-> pending_list_command(opts),
                     result |-> pending_entries(send_result(PendingAnswerSamples[i]))]>>
    /\ UNCHANGED libraryFrame

\* RedisStream::touch_group
TouchGroup(opts, i) ==
    /\ callIn.op = "none"
    /\ callIn' = [op |-> "touch_group",
                  arg |-> [options |-> opts, answer |-> AnswerSamples[i]]]
    /\ callOut' = <<"touch_group",
                    [request |-> touch_group_command(opts),
                     result |-> touch_group(send_result(AnswerSamples[i]))]>>
    /\ UNCHANGED libraryFrame

\* one stream of a read reply: (name, entries)
ReplyStream(name, entries) == RespArray(<<RespBulkString(name), RespArray(entries)>>)

\* the entries of the read replies of the model: three that are as the
\* server writes them, then the ones that are not
EntrySamples ==
    << ReplyEntry(<<"1", "-", "0">>, <<RespBulkString(<<"a">>), RespBulkString(<<"1">>)>>),
       ReplyEntry(<<"2", "-", "7">>, <<RespBulkString(<<"b">>), RespInt(2),
                                       RespBulkString(<<"c">>), RespStatus(OK_TEXT)>>),
       ReplyEntry(<<"1", "0", "-", "0">>, <<>>),
       ReplyEntry(<<"3", "-", "0">>, <<RespBulkString(<<"a">>)>>),
       ReplyEntry(<<"3", "-", "0">>, <<RespBulkString(<<"a">>), RespInt(1),
                                       RespBulkString(<<"b">>)>>),
       ReplyEntry(<<"3", "-", "0">>, <<RespBulkString(<<BAD_BYTE>>), RespInt(1)>>),
       ReplyEntry(<<"3", "-", "0">>, <<RespInt(1), RespInt(1)>>),
       ReplyEntry(<<"3", "x", "0">>, <<RespBulkString(<<"a">>), RespInt(1)>>),
       ReplyEntry(<<"3">>, <<RespBulkString(<<"a">>), RespInt(1)>>),
       ReplyEntry(<<"3", "-", "-", "0">>, <<RespBulkString(<<"a">>), RespInt(1)>>),
       ReplyEntry(<<"+", "3", "-", "0">>, <<RespBulkString(<<"a">>), RespInt(1)>>),
       RespArray(<<RespBulkString(<<"3", "-", "0">>)>>),
       RespArray(<<RespBulkString(<<"3", "-", "0">>), RespArray(<<>>), RespArray(<<>>)>>),
       RespArray(<<>>),
       RespBulkString(<<"3", "-", "0">>),
       RespInt(3) >>

\* the read replies of the model: the well-formed ones, and for every other
\* entry the replies that hold it alone, after, before and in the stream
\* after a well-formed one
ReplySamples ==
    { RespArray(<<>>),
      RespArray(<<ReplyStream(<<"s">>, <<>>)>>),
      RespArray(<<ReplyStream(<<"s">>, <<>>), ReplyStream(<<"t">>, <<EntrySamples[1]>>)>>),
      RespArray(<<ReplyStream(<<"s">>, <<EntrySamples[1], EntrySamples[2], EntrySamples[3]>>)>>),
      RespArray(<<ReplyStream(<<"s">>, <<EntrySamples[2], EntrySamples[1]>>),
                  ReplyStream(<<"t">>, <<EntrySamples[3]>>)>>),
      RespArray(<<ReplyStream(<<"t">>, <<EntrySamples[3]>>),
                  ReplyStream(<<"s">>, <<EntrySamples[2], EntrySamples[1]>>)>>),
      RespArray(<<ReplyStream(<<"s">>, <<EntrySamples[1]>>),
                  ReplyStream(<<"s">>, <<EntrySamples[1]>>)>>) }
    \cup { RespArray(<<ReplyStream(<<"s">>, <<EntrySamples[i]>>)>>) :
             i \in 1..Len(EntrySamples) }
    \cup { RespArray(<<ReplyStream(<<"s">>, <<EntrySamples[1], EntrySamples[i]>>)>>) :
             i \in 1..Len(EntrySamples) }
    \cup { RespArray(<<ReplyStream(<<"s">>, <<EntrySamples[i], EntrySamples[1]>>)>>) :
             i \in 1..Len(EntrySamples) }
    \cup { RespArray(<<ReplyStream(<<"s">>, <<EntrySamples[2]>>),
                       ReplyStream(<<"t">>, <<EntrySamples[i]>>)>>) :
             i \in 1..Len(EntrySamples) }

\* parse_stream_entries of a converted read reply
ParseReply(reply) ==
    /\ callIn.op = "none"
    /\ callIn' = [op |-> "parse_reply", arg |-> reply]
    /\ \E v \in {from_resp_value(reply)} :
          callOut' = <<"parse_reply",
                       IF v.ok THEN parse_stream_entries(v.val) ELSE v>>
    /\ UNCHANGED libraryFrame

XADD == <<"X", "A", "D", "D">>
XRANGE == <<"X", "R", "A", "N", "G", "E">>

\* Option<EntryId>
NoEntryId == [kind |-> "None", val |-> <<0, 0>>]
SomeEntryId(id) == [kind |-> "Some", val |-> id]

SendEntryOptions_new(stream) == [stream |-> stream, entry_id |-> NoEntryId]
SendEntryOptions_with_id(stream, entry_id) ==
    [stream |-> stream, entry_id |-> SomeEntryId(entry_id)]

\* add_command, the loop: key_values holds the (key, value) pairs in the
\* order the map's iterator gives them
RECURSIVE add_command_pairs(_, _)
add_command_pairs(c, key_values) ==
    IF key_values = <<>> THEN c
    ELSE add_command_pairs(arg_mut(arg(c, Head(key_values)[1]), Head(key_values)[2]),
                           Tail(key_values))

\* add_command: XADD stream id|* key value ...
add_command(opts, key_values) ==
    add_command_pairs(
        arg(arg(command(XADD), opts.stream),
            IF opts.entry_id.kind = "Some" THEN EntryId_to_string(opts.entry_id.val)
            ELSE <<"*">>),
        key_values)

\* range_cmd: XRANGE stream left right COUNT count
range_cmd(opts) ==
    LET left_right == to_left_right(opts.range)
    IN arg_mut(arg(arg(arg(arg(command(XRANGE), opts.stream), left_right[1]),
                       left_right[2]), COUNT),
               ArgInt(opts.count))

RangeEntry_new(id, values) == [id |-> id, values |-> values]

\* parse_range_entries, the loop over the entries
RECURSIVE range_entries_of(_, _, _)
range_entries_of(entries, e, result) ==
    IF e > Len(entries) THEN ResOk(result)
    ELSE Bind(EntryId_from_string(entries[e].id), LAMBDA id :
           IF ~id.ok THEN id
           ELSE Call3(range_entries_of, entries, e + 1,
                      Append(result, RangeEntry_new(id.val, entries[e].key_values))))

\* parse_range_entries: XRANGE reply to a list of RangeEntry
parse_range_entries(value) ==
    Bind(vec_elements(value), LAMBDA elems :
      IF ~elems.ok THEN elems
      ELSE Bind(entry_infos(elems.val, 1, <<>>), LAMBDA entries :
        IF ~entries.ok THEN entries
        ELSE range_entries_of(entries.val, 1, <<>>)))

\* RedisStream::send_entry, the closure given to and_then
send_entry(sent) ==
    IF ~sent.ok THEN sent
    ELSE Bind(string_from_redis_value(sent.val), LAMBDA entry_id_string :
           IF ~entry_id_string.ok THEN entry_id_string
           ELSE Bind(EntryId_from_string(entry_id_string.val), LAMBDA entry_id :
                  IF ~entry_id.ok THEN entry_id
                  ELSE ResOk([facade |-> "RedisStream", entry_id |-> entry_id.val])))

\* RedisStream::read_explicit, the closure given to and_then
read_explicit(sent) ==
    IF ~sent.ok THEN sent
    ELSE Bind(parse_stream_entries(sent.val), LAMBDA entries :
           IF ~entries.ok THEN entries
           ELSE ResOk([facade |-> "RedisStream", entries |-> entries.val]))

\* RedisStream::range, the closure given to and_then
RedisStream_range(sent) ==
    IF ~sent.ok THEN sent
    ELSE Bind(parse_range_entries(sent.val), LAMBDA entries :
           IF ~entries.ok THEN entries
           ELSE ResOk([facade |-> "RedisStream", entries |-> entries.val]))

\* the options, the fields and the answers of the calls of XADD and XRANGE
SendEntryOptionsSamples ==
    { SendEntryOptions_new(<<"s">>),
      SendEntryOptions_with_id(<<"t">>, EntryId_new(10, 7)) }

KeyValueSamples ==
    { <<>>,
      << <<<<"a">>, ArgInt(1)>> >>,
      << <<<<"a">>, ArgInt(1)>>, <<<<"b">>, ArgString(<<"x">>)>> >>,
      << <<<<"b">>, ArgString(<<"x">>)>>, <<<<"a">>, ArgInt(1)>> >> }

SendAnswerSamples ==
    << Answered(RespBulkString(<<"1", "-", "0">>)),
       Answered(RespBulkString(<<"1", "0", "-", "7">>)),
       Answered(RespStatus(<<"2", "-", "1">>)),
       Answered(RespBulkString(<<"1", "x", "0">>)),
       Answered(RespBulkString(<<BAD_BYTE>>)),
       Answered(RespInt(1)),
       Answered(RespNil),
       Answered(RespError(<<"E">>)),
       Closed,
       Failed("ConnectionError", IO_TEXT) >>

RangeAnswerSamples ==
    << Answered(RespArray(<<EntrySamples[1], EntrySamples[2]>>)),
       Answered(RespArray(<<EntrySamples[3]>>)),
       Answered(RespArray(<<>>)),
       Answered(RespArray(<<EntrySamples[1], EntrySamples[8]>>)),
       Answered(RespArray(<<EntrySamples[4]>>)),
       Answered(RespNil),
       Answered(RespError(<<"E">>)),
       Closed,
       Failed("ConnectionError", IO_TEXT) >>

RangeOptionsSamples ==
    { made.val :
        made \in { r \in { RangeOptions_new(<<"s">>, 2, RangeType_Any),
                           RangeOptions_new(<<"t">>, 10,
                               GreaterLessThan(EntryId_new(0, 10), EntryId_new(1, 0))) } :
                   r.ok } }

\* RedisStream::send_entry: the request goes to Send, the closure gets what
\* Send ends with
SendEntry(opts, key_values, i) ==
    /\ callIn.op = "none"
    /\ callIn' = [op |-> "send_entry",
                  arg |-> [options |-> opts, answer |-> SendAnswerSamples[i]]]
    /\ callOut' = <<"send_entry",
                    [request |-> add_command(opts, key_values),
                     result |-> send_entry(send_result(SendAnswerSamples[i]))]>>
    /\ UNCHANGED libraryFrame

\* RedisStream::read_explicit
ReadExplicit(opts, i) ==
    /\ callIn.op = "none"
    /\ callIn' = [op |-> "read_explicit",
                  arg |-> [options |-> opts, answer |-> PendingAnswerSamples[i]]]
    /\ callOut' = <<"read_explicit",
                    [request |-> read_explicit_cmd(opts),
                     result |-> read_explicit(send_result(PendingAnswerSamples[i]))]>>
    /\ UNCHANGED libraryFrame

\* RedisStream::range
Range(opts, i) ==
    /\ callIn.op = "none"
    /\ callIn' = [op |-> "range",
                  arg |-> [options |-> opts, answer |-> RangeAnswerSamples[i]]]
    /\ callOut' = <<"range",
                    [request |-> range_cmd(opts),
                     result |-> RedisStream_range(send_result(RangeAnswerSamples[i]))]>>
    /\ UNCHANGED libraryFrame

\* the values of the integer arguments of the model, for a type of n bits:
\* zero, one, the highest bit alone, all bits but the highest, all bits
BitSamples(n) ==
    { [i \in 1..n |-> 0],
      [i \in 1..n |-> IF i = n THEN 1 ELSE 0],
      [i \in 1..n |-> IF i = 1 THEN 1 ELSE 0],
      [i \in 1..n |-> IF i = 1 THEN 0 ELSE 1],
      [i \in 1..n |-> 1],
      [i \in 1..n |-> IF i % 3 = 0 THEN 1 ELSE 0] }

\* RedisCommand::arg of an integer: into_redis_argument, then
\* into_resp_value
IntoRedisArgument(t, bits) ==
    /\ callIn.op = "none"
    /\ callIn' = [op |-> "into_redis_argument",
                  arg |-> [type |-> IntTypes[t], value |-> bits]]
    /\ callOut' = <<"into_redis_argument",
                    argument_into_resp_value(into_redis_argument(IntTypes[t], bits))>>
    /\ UNCHANGED libraryFrame

\* the caller takes the result: no call is in progress
Return ==
    /\ callIn.op # "none"
    /\ callIn' = [op |-> "none", arg |-> <<>>]
    /\ callOut' = <<>>
    /\ UNCHANGED libraryFrame

ApiInit ==
    /\ ConnectionIdle
    /\ CodecIdle
    /\ CommandIdle

ApiNext ==
    \/ \E i \in 1..Len(IntSamples), t \in 1..Len(IntShapes) : IntFromInt(i, t)
    \/ \E i \in 1..Len(IntSamples), t \in 1..Len(IntShapes) : IntFromText(i, t)
    \/ \E i \in 1..Len(IntTextSamples), t \in 1..Len(IntShapes) : IntFromOther(i, t)
    \/ \E i \in 1..Len(IdTextSamples), f \in 1..Len(FieldSamples) :
          ParseStreamEntries(i, f)
    \/ \E a, b \in 1..Len(ComponentSamples) : EntryIdToFromString(a, b)
    \/ \E i \in 1..Len(IdTextSamples) : EntryIdFromString(i)
    \/ \E range \in RangeSamples : RangeOptionsNew(range)
    \/ \E range \in RangeSamples : PendingOptionsNew(range)
    \/ \E range \in RangeSamples : PendingOptionsWithCount(range)
    \/ \E opts \in AckOptionsSamples, i \in 1..Len(AnswerSamples) :
          AckEntry(opts, i)
    \/ \E opts \in PendingOptionsSamples, i \in 1..Len(PendingAnswerSamples) :
          PendingEntries(opts, i)
    \/ \E opts \in TouchGroupOptionsSamples, i \in 1..Len(AnswerSamples) :
          TouchGroup(opts, i)
    \/ \E streams \in StreamListSamples, group \in GroupSamples :
          SubscribeCmd(streams, group)
    \/ \E opts \in ReadExplicitOptionsSamples : ReadExplicitCmd(opts)
    \/ \E reply \in ReplySamples : ParseReply(reply)
    \/ \E opts \in SendEntryOptionsSamples, key_values \in KeyValueSamples,
             i \in 1..Len(SendAnswerSamples) : SendEntry(opts, key_values, i)
    \/ \E opts \in ReadExplicitOptionsSamples, i \in 1..Len(PendingAnswerSamples) :
          ReadExplicit(opts, i)
    \/ \E opts \in RangeOptionsSamples, i \in 1..Len(RangeAnswerSamples) : Range(opts, i)
    \/ \E t \in 1..Len(IntTypes) : \E bits \in BitSamples(IntTypes[t].bits) :
          IntoRedisArgument(t, bits)
    \/ Return
    \/ \E a, b, c, d \in 0..2 : EntryIdCompare(a, b, c, d)

ApiSpec == ApiInit /\ [][ApiNext]_vars

\* -------------------------------------------------------------------- claims

Last(q) == q[Len(q)]

\* results that took a frame from the receiver
FrameResults == { k \in 1..Len(results) : results[k].ok \/ results[k].kind = "ReceiveError" }

\* C1: a send future offers its request to the transport exactly once and
\* polls the receiver only after the transport accepted the request
\* (start_send ready) and flushed it (poll_complete ready), whatever the
\* transport answers.
C1_OfferOnceThenReceive ==
    /\ offered <= 1
    /\ rxPolled => (offered = 1 /\ accepted /\ flushed)

\* C2: with a transport that eventually accepts and flushes and a server that
\* answers every request it receives, every send future eventually ends
\* (value, connection-closed failure or server-error failure).
C2_SendTerminates == (owner = "send") ~> (owner # "send")

\* C3: at most one request is in flight at any moment, each finished send
\* that got a reply consumed exactly one frame, and the k-th completed send
\* returns the user value of the k-th frame the transport delivered.
C3_SingleFlightInOrder ==
    /\ written - consumed \in {0, 1}
    /\ Len(sinkBuf) + Len(srvIn) + Len(rxQueue) <= 1
    /\ consumed = Cardinality(FrameResults)
    /\ \A k \in 1..Len(results) :
          results[k].ok =>
             /\ k <= Len(delivered)
             /\ results[k] = into_redis_value(delivered[k])

C3_Witness ==
    /\ Len(results) = 2
    /\ results[1].ok
    /\ results[2].ok
    /\ delivered[1] # delivered[2]

\* C4 as stated: after a wire Error reply the failure carries kind Receive
\* and the server text, and the connection stays usable for a further send.
C4_ConnectionUsableAfterError ==
    \A k \in 1..Len(results) :
        (k <= consumed /\ delivered[k].kind = "Error") =>
            /\ results[k] = ResErr("ReceiveError", delivered[k].val)
            /\ owner \in {"caller", "send"}

\* C4 amended: after a wire Error reply the failure carries kind Receive and
\* the server text verbatim; the failed future returns no connection, so the
\* failure is the last outcome on that connection.
C4_ErrorSurfacedConnectionConsumed ==
    \A k \in 1..Len(results) :
        /\ (k <= consumed /\ delivered[k].kind = "Error") =>
              results[k] = ResErr("ReceiveError", delivered[k].val)
        /\ results[k].kind = "ReceiveError" =>
              (k = Len(results) /\ owner = "none")

C4_Witness ==
    /\ Len(results) = 2
    /\ Len(delivered) = 2
    /\ results[1].ok
    /\ delivered[2] = RespError(<<"E">>)
    /\ results[2] = ResErr("ReceiveError", <<"E">>)
    /\ owner = "none"

ClosedBeforeReply ==
    owner = "send" /\ accepted /\ flushed /\ rxClosed /\ rxQueue = <<>>

ConnectionClosedFailure ==
    /\ owner = "none"
    /\ results # <<>>
    /\ Last(results) = ResErr("ConnectionError", CLOSED_TEXT)

\* C5: when the receive side ends after the request was flushed and before
\* a reply frame arrived, the send fails with kind Connection and returns
\* neither a value nor the connection.
C5_ClosedGivesConnectionError ==
    /\ [][(ClosedBeforeReply /\ owner' # "send") =>
            (ConnectionClosedFailure' /\ Len(results') = Len(results) + 1)]_vars
    /\ ClosedBeforeReply ~> ConnectionClosedFailure

C5_Witness ==
    /\ ConnectionClosedFailure
    /\ accepted /\ flushed /\ rxClosed
    /\ consumed = Len(results) - 1

\* what the consumer is to be given for the reply frame f
item_of_frame(f) ==
    IF from_resp_value(f).ok
    THEN parse_stream_entries(from_resp_value(f).val)
    ELSE from_resp_value(f)

\* the positions of the outcomes the consumer was given for reply frames
FrameItems == { k \in 1..Len(items) : items[k].src = "frame" }

\* the number of batches the consumer was given
BatchCount == Cardinality({ k \in 1..Len(items) : items[k].res.ok })

\* C6: during a subscription the number of outstanding read commands (read
\* commands written to the transport, primer included, minus reply frames
\* received) never exceeds 1, whatever the interleaving of the two tasks,
\* the consumer's polls and the arriving frames.
C6_OutstandingReadsAtMostOne ==
    /\ written - consumed \in {0, 1}
    /\ written - Len(delivered) \in {0, 1}
    /\ Len(sinkBuf) + Len(srvIn) + Len(rxQueue) <= 1

C6_Witness ==
    /\ owner = "subscribe"
    /\ written = 3
    /\ consumed = 2
    /\ Len(srvIn) = 1

\* C7: the re-arm that follows reply frame k (the read command number k + 1)
\* is never written to the transport before the consumer was given the
\* outcome of frame k.
C7_RearmAfterBatchHanded ==
    /\ written <= 1 + Cardinality(FrameItems)
    /\ chan + (IF foldState = "Processing" /\ sinkItem THEN 1 ELSE 0) + written
          <= 1 + Cardinality(FrameItems)

C7_Witness ==
    /\ owner = "subscribe"
    /\ written = 3
    /\ Cardinality(FrameItems) = 2
    /\ sinkBuf # <<>>

\* an error outcome was given to the consumer
ErrorYielded == \E k \in 1..Len(items) : ~items[k].res.ok

\* C8: once the receive side of the transport has ended, the polled
\* subscription eventually yields the end of the sequence or an error.
C8_TerminatesOnReceiveEnd ==
    (owner = "subscribe" /\ rxClosed) ~> (ended \/ ErrorYielded \/ owner # "subscribe")

\* the consumer was given the failure of a wire Error frame
WireErrorHanded ==
    \E k \in 1..Len(items) : items[k].src = "frame" /\ items[k].res.kind = "ReceiveError"

\* C9: a wire Error reply frame gives the consumer a failure for that frame
\* and ends the subscription: afterwards no further batch is yielded and no
\* further read command is written to the transport.
C9_WireErrorTerminates ==
    [][WireErrorHanded => (written' = written /\ BatchCount' = BatchCount)]_vars

\* C10: the outcome the consumer is given for the k-th reply frame is the k-th
\* outcome of the sequence and is the decoding of that frame; every frame
\* taken from the transport is given once, in the order of arrival.
C10_BatchesInReplyOrder ==
    /\ \A k \in FrameItems :
          /\ k <= Len(delivered)
          /\ items[k].res = item_of_frame(delivered[k])
    /\ Cardinality(FrameItems) = consumed - (IF srcFut.kind = "Some" THEN 1 ELSE 0)
    /\ consumed <= Len(delivered)
    /\ rxQueue = SubSeq(delivered, consumed + 1, Len(delivered))

C10_Witness ==
    /\ Len(items) = 3
    /\ Len(delivered) = 3
    /\ items[1].res.ok
    /\ ~items[2].res.ok
    /\ items[3].res.ok
    /\ items[1].res # items[3].res

\* the sentinels that are not yet written as a re-arm command: queued in the
\* channel or held by the sink task's pending send
SentinelsPending == chan + (IF sinkItem THEN 1 ELSE 0)

\* C11: every sentinel is turned into exactly one re-arm command: the
\* commands written are the primer plus one per sentinel already taken and
\* sent, never more than one per reply frame received; and while the consumer
\* keeps polling a sink that works, the re-arm of every received frame is
\* eventually written.
C11_OneRearmPerSentinel ==
    /\ [](owner = "subscribe" => written + SentinelsPending = 1 + consumed)
    /\ [](written <= 1 + consumed)
    /\ \A n \in 0..MaxFrames :
          (owner = "subscribe" /\ consumed = n)
             ~> (written = n + 1 \/ consumed > n \/ outGone \/ owner # "subscribe")

C11_Witness ==
    /\ owner = "subscribe"
    /\ ~outGone
    /\ consumed = 3
    /\ written = 4
    /\ SentinelsPending = 0

\* the call of decode was made on exactly the encoding of the j-th value the
\* peer encoded
DecodedEncodingOf(j) ==
    /\ j \in 1..Len(encoded)
    /\ dec.kind # "Idle"
    /\ dec.before = encode(encoded[j])

\* C12: round trip: decoding the bytes the encoder produced for a wire value
\* returns that value, and the consumed length is the length of the encoding.
C12_RoundTrip ==
    \A j \in 1..Len(encoded) :
       DecodedEncodingOf(j) =>
          /\ dec.kind = "Frame"
          /\ dec.value = encoded[j]
          /\ dec.len = Len(encode(encoded[j]))

\* p is a prefix of s
IsPrefix(p, s) == Len(p) <= Len(s) /\ SubSeq(s, 1, Len(p)) = p

\* C13: incremental parsing: a call of decode on the encoding B of a frame
\* followed by trailing bytes T returns the frame and leaves exactly T in the
\* buffer; a call on a proper prefix of B returns 'need more' and leaves the
\* buffer untouched.
C13_IncrementalParsing ==
    \A j \in 1..Len(encoded) :
       dec.kind # "Idle" =>
          /\ IsPrefix(encode(encoded[j]), dec.before) =>
                /\ dec.kind = "Frame"
                /\ dec.value = encoded[j]
                /\ readBuf = SubSeq(dec.before, Len(encode(encoded[j])) + 1, Len(dec.before))
          /\ (IsPrefix(dec.before, encode(encoded[j])) /\ dec.before # encode(encoded[j])) =>
                /\ dec.kind = "NeedMore"
                /\ readBuf = dec.before

\* the null BulkString of the protocol
NULL_BULK == <<START_BULK_STRING, "-", "1", CR, LF>>

\* C14: a buffer that starts with the null BulkString form $-1\r\n decodes to
\* Nil; exactly the bytes of the form are consumed and the bytes that follow
\* stay in the buffer.
C14_NullBulkIsNil ==
    (dec.kind # "Idle" /\ IsPrefix(NULL_BULK, dec.before)) =>
       /\ dec.kind = "Frame"
       /\ dec.value = RespNil
       /\ dec.len = Len(NULL_BULK)
       /\ readBuf = SubSeq(dec.before, Len(NULL_BULK) + 1, Len(dec.before))

\* the null Array of the protocol
NULL_ARRAY == <<START_ARRAY, "-", "1", CR, LF>>

\* C15: a buffer that starts with an Array frame of negative declared length
\* (the null array *-1\r\n) decodes to the wire value Nil and not to an error.
C15_NullArrayIsNil ==
    (dec.kind # "Idle" /\ IsPrefix(NULL_ARRAY, dec.before)) =>
       /\ dec.kind = "Frame"
       /\ dec.value = RespNil

\* C16: when the CR of a line terminator (of a Status, an Error, an Integer, a
\* BulkString or Array length, or of a nested element) is followed by a byte
\* other than LF, decode returns a Parse error; when that CR is the last byte
\* in the buffer, decode returns 'need more'.
C16_BrokenLineIsParseError ==
    (brokenAt > 0 /\ dec.kind # "Idle") =>
       /\ Len(dec.before) > brokenAt => dec.kind = "Err"
       /\ Len(dec.before) = brokenAt => dec.kind = "NeedMore"
       /\ readBuf = dec.before

C16_Witness ==
    /\ brokenAt > 2
    /\ Len(dec.before) > brokenAt
    /\ dec.before[1] = START_ARRAY
    /\ dec.before[brokenAt - 2] = START_BULK_STRING
    /\ dec.kind = "Err"

\* C17: for every input, declared lengths up to 2^63-1 included, a call of
\* decode returns a frame, 'need more' or a Parse error and never panics.
C17_DecodeNeverPanics ==
    dec.kind \in {"Idle", "Frame", "NeedMore", "Err"}

\* C18: a call of decode changes the buffer only when it returns a frame, and
\* then removes exactly the first consumed_length bytes; when it returns 'need
\* more' or a Parse error the buffer is as it was before the call.
C18_BufferChangedOnlyOnSuccess ==
    [][ (dec'.kind # "Idle" /\ dec' # dec) =>
           /\ dec'.before = readBuf
           /\ dec'.kind = "Frame" =>
                 /\ dec'.len \in 1..Len(readBuf)
                 /\ readBuf' = SubSeq(readBuf, dec'.len + 1, Len(readBuf))
           /\ dec'.kind \in {"NeedMore", "Err"} => readBuf' = readBuf ]_vars

C18_Witness ==
    /\ dec.kind = "Frame"
    /\ dec.len < Len(dec.before)
    /\ readBuf = SubSeq(dec.before, dec.len + 1, Len(dec.before))
    /\ Len(encoded) = 1
    /\ dec.value = encoded[1]

\* the text an argument is written with: the decimal form of an integer, the
\* bytes of a string
ArgText(a) ==
    IF a.kind = "Int"
    THEN (IF a.val < 0 THEN <<"-">> ELSE <<>>)
            \o nat_to_text(IF a.val < 0 THEN 0 - a.val ELSE a.val)
    ELSE a.val

\* C19: a command created with a verb, after any sequence of arg, arg_mut and
\* append, serialises as an Array of BulkStrings only, whose first element is
\* the verb, whose length is 1 plus the number of appended arguments, and
\* whose arguments are in the order they were appended.
C19_CommandIsArrayOfBulkStrings ==
    cmdVerb # <<>> =>
       /\ into_resp_value(cmd).kind = "Array"
       /\ Len(into_resp_value(cmd).val) = 1 + Len(cmdArgs)
       /\ \A i \in 1..Len(cmd) : cmd[i].kind = "BulkString"
       /\ cmd[1].val = cmdVerb[1]
       /\ \A i \in 1..Len(cmdArgs) : cmd[i + 1].val = ArgText(cmdArgs[i])
       /\ dst # <<>> =>
             /\ dst[1] = START_ARRAY
             /\ dst = encode_resp_value(
                         RespArray([i \in 1..(1 + Len(cmdArgs)) |->
                            IF i = 1 THEN RespBulkString(cmdVerb[1])
                            ELSE RespBulkString(ArgText(cmdArgs[i - 1]))]))

C19_Witness ==
    /\ cmdVerb = << <<"S", "E", "T">> >>
    /\ Len(cmdArgs) = 3
    /\ cmdArgs[1] = ArgString(<<"k">>)
    /\ cmdArgs[2] = ArgInt(7)
    /\ dst # <<>>

\* the texts of the Errors in a wire value, outermost and leftmost first
RECURSIVE ErrorTexts(_)
RECURSIVE ErrorTextsOfElements(_, _)
ErrorTextsOfElements(x, i) ==
    IF i > Len(x) THEN <<>>
    ELSE ErrorTexts(x[i]) \o ErrorTextsOfElements(x, i + 1)

ErrorTexts(v) ==
    CASE v.kind = "Error" -> <<v.val>>
      [] v.kind = "Array" -> ErrorTextsOfElements(v.val, 1)
      [] OTHER -> <<>>

\* the user value of a wire value without Error: Status("OK") is Ok, every
\* other value keeps its kind and content
RECURSIVE Promoted(_)
Promoted(v) ==
    CASE v.kind = "Status" /\ v.val = OK_TEXT -> [kind |-> "Ok", val |-> <<>>]
      [] v.kind = "Array" ->
            [kind |-> "Array", val |-> [i \in 1..Len(v.val) |-> Promoted(v.val[i])]]
      [] OTHER -> v

\* a user value that is an Error or holds one
RECURSIVE UserHasError(_)
UserHasError(u) ==
    \/ u.kind = "Error"
    \/ u.kind = "Array" /\ \E i \in 1..Len(u.val) : UserHasError(u.val[i])

\* C20: the conversion of a wire value to a user value promotes Status("OK")
\* to Ok and keeps every other Status; it fails with kind Receive and the
\* server's text when the wire value is an Error or holds one at any depth;
\* a successful user value never holds an Error.
C20_ConversionPromotesOkAndFailsOnError ==
    converted.kind # "None" =>
       /\ ErrorTexts(dec.value) # <<>> =>
             /\ ~converted.ok
             /\ converted.kind = "ReceiveError"
             /\ converted.val = Head(ErrorTexts(dec.value))
       /\ ErrorTexts(dec.value) = <<>> =>
             /\ converted.ok
             /\ converted.val = Promoted(dec.value)
       /\ converted.ok => ~UserHasError(converted.val)

C20_Witness ==
    /\ converted.kind = "ReceiveError"
    /\ converted.val = <<"N">>
    /\ dec.value.kind = "Array"
    /\ Len(ErrorTexts(dec.value)) = 2

\* the number a little-endian byte sequence of at most 2 bytes stands for
\* what the last call of a library operation returned
Returned == callOut[2]

UnsignedValue(b) == IF Len(b) = 1 THEN b[1] ELSE b[1] + 256 * b[2]

\* the signed number of the 4 low-order bytes of a byte sequence
SignedLow32(b) ==
    b[1] + 256 * b[2] + 65536 * b[3] + 16777216 * (IF b[4] >= 128 THEN b[4] - 256 ELSE b[4])

\* 2^w for the widths below 32
Pow2(w) == IF w = 8 THEN 256 ELSE 65536

\* the call converted the wire Integer to an integer shape
IntCallOfInt == callIn.op = "int_from_redis_value" /\ callIn.arg.value.kind = "Int"

\* C21: the conversion of a wire Integer i to an integer shape of width w
\* succeeds and yields i modulo 2^w: for w < 32 the bytes stand for i mod 2^w,
\* for w >= 32 the low 32 bits are those of i and the bits above repeat its
\* sign.
C21_IntegerTruncation ==
    IntCallOfInt =>
       /\ Returned.ok
       /\ Len(Returned.val) * 8 = callIn.arg.shape.bits
       /\ \A k \in 1..Len(Returned.val) : Returned.val[k] \in 0..255
       /\ callIn.arg.shape.bits < 32 =>
             UnsignedValue(Returned.val) = callIn.arg.value.val % Pow2(callIn.arg.shape.bits)
       /\ callIn.arg.shape.bits >= 32 =>
             /\ SignedLow32(Returned.val) = callIn.arg.value.val
             /\ \A k \in 5..Len(Returned.val) :
                   Returned.val[k] = (IF callIn.arg.value.val < 0 THEN 255 ELSE 0)

C21_Witness ==
    /\ IntCallOfInt
    /\ callIn.arg.value.val = 300
    /\ callIn.arg.shape = IntShape(8, TRUE)
    /\ Returned.ok
    /\ Returned.val = <<44>>

\* C22: for every integer i and every integer shape, the conversion of the
\* BulkString that holds the decimal text of i gives the same result as the
\* conversion of the wire Integer i.
C22_DecimalTextSameAsInteger ==
    \A i \in 1..Len(IntSamples) :
       ( /\ callIn.op = "int_from_redis_value"
         /\ callIn.arg.value.kind = "BulkString"
         /\ callIn.arg.value.val = int_to_text(IntSamples[i]) ) =>
          Returned = int_from_redis_value(RedisInt(IntSamples[i]), callIn.arg.shape)

\* the field array holds the same field name at two places
HasDuplicateField(fields) ==
    \E j, k \in 1..(Len(fields) \div 2) :
       /\ j < k
       /\ fields[2 * j - 1].val = fields[2 * k - 1].val

\* C23: when the field array of an entry of a reply holds the same field
\* name twice, parsing the reply fails with a Parse error.
C23_DuplicateFieldIsParseError ==
    ( /\ callIn.op = "parse_stream_entries"
      /\ HasDuplicateField(callIn.arg.fields) ) =>
       /\ ~Returned.ok
       /\ Returned.kind = "ParseError"

\* the pair x comes before the pair y: the first components decide, and the
\* second ones when the first are equal
PairBefore(x, y) == x[1] < y[1] \/ (x[1] = y[1] /\ x[2] < y[2])

\* C24: parsing the text "<ms>-<seq>" that to_string produces for the entry
\* id (ms, seq) gives (ms, seq) back, and two entry ids compare as their
\* pairs do, the first component first.
C24_EntryIdRoundTripAndOrder ==
    /\ callIn.op = "EntryId_to_string" =>
          /\ Returned.parsed.ok
          /\ Returned.parsed.val = callIn.arg
          /\ \E k \in 1..Len(Returned.text) :
                /\ Returned.text[k] = "-"
                /\ \A j \in 1..Len(Returned.text) : j # k => IsDigit(Returned.text[j])
    /\ callIn.op = "EntryId_partial_cmp" =>
          /\ Returned = "Less" <=> PairBefore(callIn.arg[1], callIn.arg[2])
          /\ Returned = "Greater" <=> PairBefore(callIn.arg[2], callIn.arg[1])
          /\ Returned = "Equal" <=> callIn.arg[1] = callIn.arg[2]

C24_Witness ==
    /\ callIn.op = "EntryId_to_string"
    /\ callIn.arg = EntryId_new(999999999, 10)
    /\ Returned.text = <<"9", "9", "9", "9", "9", "9", "9", "9", "9", "-", "1", "0">>
    /\ Returned.parsed = ResOk(<<999999999, 10>>)

\* the text is one or more digits, one '-', one or more digits
IsIdText(s) ==
    \E k \in 2..(Len(s) - 1) :
       /\ s[k] = "-"
       /\ \A j \in 1..Len(s) : j # k => IsDigit(s[j])

\* C25: parsing an entry id fails with a Parse error for every text that
\* does not hold exactly one '-', that has an empty component, or whose
\* components are not unsigned decimal digits.
C25_MalformedIdIsParseError ==
    ( /\ callIn.op = "EntryId_from_string"
      /\ ~IsIdText(callIn.arg) ) =>
       /\ ~Returned.ok
       /\ Returned.kind = "ParseError"

\* the call constructs range options or pending options
OptionsCall ==
    callIn.op \in {"RangeOptions_new", "PendingOptions_new", "PendingOptions_with_count"}

\* the range of the call has two bounds and the lower one is not below the
\* upper one
BoundsNotAscending ==
    /\ callIn.arg.kind = "GreaterLessThan"
    /\ ~PairBefore(callIn.arg.left, callIn.arg.right)

\* C26: constructing range options or pending options fails with
\* InvalidOptions when the range has two bounds and the lower id is greater
\* than or equal to the upper id; with every other range it succeeds and
\* the options hold that range.
C26_RangeBounds ==
    OptionsCall =>
       IF BoundsNotAscending
       THEN /\ ~Returned.ok
            /\ Returned.kind = "InvalidOptions"
       ELSE /\ Returned.ok
            /\ Returned.val.range = callIn.arg

C26_Witness ==
    /\ callIn.op = "RangeOptions_new"
    /\ callIn.arg = GreaterLessThan(EntryId_new(0, 10), EntryId_new(0, 10))
    /\ ~Returned.ok
    /\ Returned.kind = "InvalidOptions"

\* the transport answered the request of the call with a frame
CallAnswered == callIn.arg.answer.res = "Some"
AnswerFrame == callIn.arg.answer.frame

AckOk(response) == ResOk([facade |-> "RedisStream", response |-> response])

\* C27: ack_entry maps the reply to a result: Integer 0 gives NotExists,
\* every Integer >= 1 gives Ok, and every non-Integer reply gives a Parse
\* error; on success the facade is returned with the result.
C27_AckMapping ==
    (callIn.op = "ack_entry" /\ CallAnswered) =>
       /\ (AnswerFrame.kind = "Int" /\ AnswerFrame.val = 0) =>
             Returned.result = AckOk("NotExists")
       /\ (AnswerFrame.kind = "Int" /\ AnswerFrame.val >= 1) =>
             Returned.result = AckOk("Ok")
       /\ AnswerFrame.kind # "Int" =>
             /\ ~Returned.result.ok
             /\ Returned.result.kind = "ParseError"

\* C27, amended: ack_entry maps the reply to a result: Integer 0 gives
\* NotExists and every other Integer gives Ok, both with the facade; a reply
\* that is an Error or holds one gives a Receive error with the server's
\* text; every other non-Integer reply gives a Parse error.
C27_AckMappingReceiveError ==
    (callIn.op = "ack_entry" /\ CallAnswered) =>
       /\ (AnswerFrame.kind = "Int" /\ AnswerFrame.val = 0) =>
             Returned.result = AckOk("NotExists")
       /\ (AnswerFrame.kind = "Int" /\ AnswerFrame.val # 0) =>
             Returned.result = AckOk("Ok")
       /\ (AnswerFrame.kind # "Int" /\ ErrorTexts(AnswerFrame) # <<>>) =>
             Returned.result = ResErr("ReceiveError", ErrorTexts(AnswerFrame)[1])
       /\ (AnswerFrame.kind # "Int" /\ ErrorTexts(AnswerFrame) = <<>>) =>
             /\ ~Returned.result.ok
             /\ Returned.result.kind = "ParseError"

C27_Witness ==
    /\ callIn.op = "ack_entry"
    /\ CallAnswered
    /\ AnswerFrame = RespError(<<"E">>)
    /\ Returned.request = <<RespBulkString(XACK), RespBulkString(<<"s">>),
                            RespBulkString(<<"g">>), RespBulkString(<<"1", "-", "0">>)>>
    /\ Returned.result = ResErr("ReceiveError", <<"E">>)

\* C28: touch_group completes successfully when the reply is an Error whose
\* text begins with BUSYGROUP; every other Error reply, one that holds
\* BUSYGROUP later in its text included, and every failure of the transport
\* or of the parser reaches the caller unchanged.
C28_OnlyLeadingBusygroupIsSuccess ==
    callIn.op = "touch_group" =>
       /\ (CallAnswered /\ AnswerFrame.kind = "Error") =>
             IF IsPrefix(BUSYGROUP, AnswerFrame.val)
             THEN Returned.result.ok
             ELSE Returned.result = ResErr("ReceiveError", AnswerFrame.val)
       /\ callIn.arg.answer.res = "Err" =>
             Returned.result = ResErr(AnswerFrame.kind, AnswerFrame.val)
       /\ callIn.arg.answer.res = "None" =>
             Returned.result = ResErr("ConnectionError", CLOSED_TEXT)

MKSTREAM == <<"M", "K", "S", "T", "R", "E", "A", "M">>

\* C29: the command touch_group(stream, group) writes is the argument list
\* XGROUP, CREATE, stream, group, $, MKSTREAM, in that order.
C29_TouchGroupCommand ==
    callIn.op = "touch_group" =>
       Returned.request = << RespBulkString(XGROUP), RespBulkString(CREATE),
                             RespBulkString(callIn.arg.options.stream),
                             RespBulkString(callIn.arg.options.group),
                             RespBulkString(<<"$">>), RespBulkString(MKSTREAM) >>

\* C30: pending_entries sends XREADGROUP GROUP group consumer [COUNT n]
\* STREAMS stream start_id, not XPENDING, and decodes the reply as stream
\* entries.
C30_PendingEntriesReadsGroup ==
    callIn.op = "pending_entries" =>
       /\ Returned.request[1] = RespBulkString(XREADGROUP)
       /\ SubSeq(Returned.request, 2, 4) =
             << RespBulkString(GROUP), RespBulkString(callIn.arg.options.group),
                RespBulkString(callIn.arg.options.consumer) >>
       /\ callIn.arg.options.count.kind = "Some" =>
             SubSeq(Returned.request, 5, 6) =
                << RespBulkString(COUNT),
                   RespBulkString(int_to_text(callIn.arg.options.count.val)) >>
       /\ \E k \in 5..(Len(Returned.request) - 2) :
             /\ Returned.request[k] = RespBulkString(STREAMS)
             /\ Returned.request[k + 1] = RespBulkString(callIn.arg.options.stream)
             /\ Len(Returned.request) = k + 2
       /\ \A e \in {send_result(callIn.arg.answer)} :
             e.ok => \A p \in {parse_stream_entries(e.val)} :
                        IF p.ok THEN /\ Returned.result.ok
                                     /\ Returned.result.val.entries = p.val
                        ELSE Returned.result = p

\* the names of the streams of the call, and the cursor the call gives for
\* its i-th stream
CallStreamNames ==
    IF callIn.op = "subscribe_cmd" THEN callIn.arg.streams
    ELSE [i \in 1..Len(callIn.arg.streams) |-> callIn.arg.streams[i][1]]

CallCursor(i) ==
    IF callIn.op = "subscribe_cmd"
    THEN (IF callIn.arg.group.kind = "Some" THEN <<">">> ELSE <<"$">>)
    ELSE EntryId_to_string(callIn.arg.streams[i][2])

\* C31: in every XREAD / XREADGROUP command built for N streams by
\* subscribe_cmd and read_explicit_cmd, the arguments after STREAMS are the N
\* names in the order given, then N cursors, the i-th one for the i-th name.
C31_NamesThenCursors ==
    callIn.op \in {"subscribe_cmd", "read_explicit_cmd"} =>
       \E k \in 1..Len(Returned) :
          /\ Returned[k] = RespBulkString(STREAMS)
          /\ \A j \in 1..(k - 1) : Returned[j] # RespBulkString(STREAMS)
          /\ Len(Returned) = k + 2 * Len(CallStreamNames)
          /\ \A i \in 1..Len(CallStreamNames) :
                /\ Returned[k + i] = RespBulkString(CallStreamNames[i])
                /\ Returned[k + Len(CallStreamNames) + i] = RespBulkString(CallCursor(i))

C31_Witness ==
    /\ callIn.op = "read_explicit_cmd"
    /\ Returned = << RespBulkString(XREAD), RespBulkString(COUNT), RespBulkString(<<"2">>),
                     RespBulkString(STREAMS),
                     RespBulkString(<<"s">>), RespBulkString(<<"t">>), RespBulkString(<<"u">>),
                     RespBulkString(<<"1", "-", "0">>), RespBulkString(<<"2", "-", "7">>),
                     RespBulkString(<<"0", "-", "1", "0">>) >>

WellFormedFields(f) ==
    /\ f.kind = "Array"
    /\ Len(f.val) % 2 = 0
    /\ \A j \in 1..(Len(f.val) \div 2) :
          /\ f.val[2 * j - 1].kind = "BulkString"
          /\ IsUtf8(f.val[2 * j - 1].val)
          /\ ErrorTexts(f.val[2 * j]) = <<>>
    /\ ~HasDuplicateField(f.val)

\* the entry of a reply as the server writes it: (id, field array)
WellFormedEntry(e) ==
    /\ e.kind = "Array"
    /\ Len(e.val) = 2
    /\ e.val[1].kind = "BulkString"
    /\ IsIdText(e.val[1].val)
    /\ WellFormedFields(e.val[2])

\* the stream of a reply: (name, entries)
StreamShaped(st) ==
    /\ st.kind = "Array"
    /\ Len(st.val) = 2
    /\ st.val[1].kind = "BulkString"
    /\ IsUtf8(st.val[1].val)
    /\ st.val[2].kind = "Array"

WellFormedReply(r) ==
    /\ r.kind = "Array"
    /\ \A s \in 1..Len(r.val) :
          /\ StreamShaped(r.val[s])
          /\ \A e \in 1..Len(r.val[s].val[2].val) : WellFormedEntry(r.val[s].val[2].val[e])

\* the number a text of decimal digits stands for
RECURSIVE DecimalOf(_)
DecimalOf(t) ==
    IF t = <<>> THEN 0
    ELSE 10 * DecimalOf(SubSeq(t, 1, Len(t) - 1)) + DigitValue(t[Len(t)])

\* the pair (ms, seq) the text "<ms>-<seq>" stands for
IdPair(t) ==
    LET k == CHOOSE j \in 1..Len(t) : t[j] = "-"
    IN <<DecimalOf(SubSeq(t, 1, k - 1)), DecimalOf(SubSeq(t, k + 1, Len(t)))>>

\* the map of a field array without repeated keys
FieldMap(f) ==
    [key \in {f[2 * j - 1].val : j \in 1..(Len(f) \div 2)} |->
        Promoted(f[2 * (CHOOSE j \in 1..(Len(f) \div 2) : f[2 * j - 1].val = key)])]

\* the number of entries in the streams of the reply before stream s
RECURSIVE EntriesBefore(_, _)
EntriesBefore(r, s) ==
    IF s = 1 THEN 0 ELSE EntriesBefore(r, s - 1) + Len(r.val[s - 1].val[2].val)

\* C33: parsing a well-formed read reply returns one stream entry for every
\* entry of every stream, streams in the order of the outer array and
\* entries in their order inside the stream, each with its stream name, its
\* parsed id and its field map; an empty outer array gives an empty batch.
C33_EntriesInReplyOrder ==
    (callIn.op = "parse_reply" /\ WellFormedReply(callIn.arg)) =>
       /\ Returned.ok
       /\ Len(Returned.val) = EntriesBefore(callIn.arg, Len(callIn.arg.val) + 1)
       /\ \A s \in 1..Len(callIn.arg.val) :
             \A e \in 1..Len(callIn.arg.val[s].val[2].val) :
                LET entry == callIn.arg.val[s].val[2].val[e]
                    got == Returned.val[EntriesBefore(callIn.arg, s) + e]
                IN /\ got.stream = callIn.arg.val[s].val[1].val
                   /\ got.id = IdPair(entry.val[1].val)
                   /\ got.values = FieldMap(entry.val[2].val)

C33_Witness ==
    /\ callIn.op = "parse_reply"
    /\ callIn.arg = RespArray(<<ReplyStream(<<"s">>, <<EntrySamples[2], EntrySamples[1]>>),
                                ReplyStream(<<"t">>, <<EntrySamples[3]>>)>>)
    /\ Returned.ok
    /\ Len(Returned.val) = 3
    /\ Returned.val[1].id = <<2, 7>>
    /\ Returned.val[2].id = <<1, 0>>
    /\ Returned.val[3].stream = <<"t">>

\* the entry has the shape (id, field array), both of the right kind
EntryShaped(e) ==
    /\ e.kind = "Array"
    /\ Len(e.val) = 2
    /\ e.val[1].kind = "BulkString"
    /\ e.val[2].kind = "Array"

\* a field array of odd length, or with a key that is not valid UTF-8 text
FieldsBroken(f) ==
    \/ Len(f) % 2 # 0
    \/ \E j \in 1..((Len(f) + 1) \div 2) :
          \/ f[2 * j - 1].kind # "BulkString"
          \/ ~IsUtf8(f[2 * j - 1].val)

\* the reply is an array of (name, entries) streams
ReplyShaped(r) == r.kind = "Array" /\ \A s \in 1..Len(r.val) : StreamShaped(r.val[s])

\* some entry of the reply satisfies Broken
SomeEntry(r, Broken(_)) ==
    \E s \in 1..Len(r.val) : \E e \in 1..Len(r.val[s].val[2].val) :
        Broken(r.val[s].val[2].val[e])

\* the entry is what the claim lists: no (id, field array) pair, a field
\* array of odd length, a key that is no UTF-8 text, or an id that is not
\* digits, one '-', digits
ListedEntry(e) ==
    \/ ~EntryShaped(e)
    \/ FieldsBroken(e.val[2].val)
    \/ ~IsIdText(e.val[1].val)

\* C38: parsing a read reply fails as a whole, with an error and no partial
\* list of entries, whenever an entry of it has a field array of odd length,
\* a key that is not valid UTF-8 text, an id that is not a valid entry id,
\* or is not a two-element (id, field array) array.
C38_BrokenEntryFailsWhole ==
    (callIn.op = "parse_reply" /\ ReplyShaped(callIn.arg)
       /\ SomeEntry(callIn.arg, ListedEntry)) =>
       ~Returned.ok


\* the operations of the facade that send one request and take the answer
FacadeOps == {"send_entry", "read_explicit", "range", "ack_entry", "pending_entries",
              "touch_group"}

\* the item is the pair of the facade and something
WithFacade(item) ==
    /\ DOMAIN item # {}
    /\ "facade" \in DOMAIN item
    /\ item.facade = "RedisStream"

\* C34: every operation of the stream facade other than subscribe
\* (send_entry, read_explicit, range, ack_entry, pending_entries,
\* touch_group) yields the facade together with its result on success, so
\* that a further operation can be issued on the same connection.
C34_SuccessYieldsFacade ==
    (callIn.op \in FacadeOps /\ Returned.result.ok) => WithFacade(Returned.result.val)

\* the decimal representation of the value of an integer of the given type
DecimalOfTyped(type, bits) ==
    IF type.signed THEN signed_to_string(bits) ELSE unsigned_to_string(bits)

\* C40: for every integer type accepted as a command argument (u8, i8, u16,
\* i16, u32, i32, i64, u64, usize) and every value of that type, the
\* BulkString placed in the command is the decimal representation of that
\* value itself: the cast to signed 64-bit renders no value as a different
\* number.
C40_IntArgumentIsItsDecimal ==
    callIn.op = "into_redis_argument" =>
       Returned = RespBulkString(DecimalOfTyped(callIn.arg.type, callIn.arg.value))

\* the sentinels pushed into the channel since the subscription was built:
\* the ones queued, the one the sink task holds as a pending command, and
\* the ones already written as a re-arm command (all commands written but
\* the primer)
SentinelsPushed(queued, held, wr) == queued + (IF held THEN 1 ELSE 0) + (wr - 1)

\* the number of outcomes of reply frames among the outcomes `its`
FrameOutcomes(its) == Cardinality({ k \in 1..Len(its) : its[k].src = "frame" })

\* the consumer was given the failure of a frame's conversion
ConversionFailureHanded ==
    \E k \in 1..Len(items) :
       /\ items[k].src = "frame"
       /\ ~items[k].res.ok
       /\ ~from_resp_value(delivered[k]).ok

\* C35: for each complete reply frame received during a subscription the
\* source task first pushes one sentinel into the internal channel and only
\* then converts the frame and yields it; the sentinel is pushed exactly
\* once per frame, also when the frame later fails conversion.
C35_SentinelBeforeConversion ==
    [][(owner = "subscribe" /\ owner' = "subscribe") =>
         /\ SentinelsPushed(chan', sinkItem', written')
               - SentinelsPushed(chan, sinkItem, written) = consumed' - consumed
         /\ consumed' - consumed \in {0, 1}
         /\ FrameOutcomes(items') <= SentinelsPushed(chan', sinkItem', written')
         /\ FrameOutcomes(items') - FrameOutcomes(items) \in {0, 1}]_vars

C35_Witness ==
    /\ owner = "subscribe"
    /\ ConversionFailureHanded
    /\ consumed = 2
    /\ FrameOutcomes(items) = 2
    /\ SentinelsPushed(chan, sinkItem, written) = 2
    /\ chan = 1

\* C36: at every moment of a subscription, under every interleaving of the
\* source task and the sink task, a sink blocked on a transport write that
\* is not ready while frames keep arriving included, the internal channel
\* holds at most one queued sentinel; and it has one producer, the source
\* task when it takes a frame, and one consumer, the sink task.
C36_AtMostOneQueuedSentinel ==
    /\ [](chan <= 1)
    /\ [][chan' > chan => consumed' = consumed + 1]_vars
    /\ [][chan' < chan => (sinkItem' \/ written' > written)]_vars

\* the outcome is the failure of the sink task
SinkFailure(e) == e.src = "sink" /\ ~e.res.ok

\* the outcomes the source task yielded, in order: one per frame taken from
\* the transport whose future has finished
SourceOutcomes ==
    [k \in 1..(consumed - (IF srcFut.kind = "Some" THEN 1 ELSE 0)) |->
        item_of_frame(delivered[k])]

\* the outcomes of `its` that are no failure of the sink task, in order
RECURSIVE WithoutSinkFailures(_)
WithoutSinkFailures(its) ==
    IF its = <<>> THEN <<>>
    ELSE IF SinkFailure(Head(its)) THEN WithoutSinkFailures(Tail(its))
    ELSE <<Head(its).res>> \o WithoutSinkFailures(Tail(its))

\* C37: the items of the subscription sequence are exactly the values the
\* source task yielded: the end of the sink task never adds an item to the
\* sequence, and a failure of the sink task appears in it only as an error.
C37_ItemsAreSourceOutcomes ==
    /\ [](owner = "subscribe" => WithoutSinkFailures(items) = SourceOutcomes)
    /\ [](\A k \in 1..Len(items) : items[k].res.ok => items[k].src = "frame")
    /\ [][(outGone' /\ ~outGone) =>
            \/ items' = items
            \/ /\ Len(items') = Len(items) + 1
               /\ SubSeq(items', 1, Len(items)) = items
               /\ \/ SinkFailure(items'[Len(items')])
                  \/ items'[Len(items')].src = "frame"]_vars

C37_Witness ==
    /\ owner = "subscribe"
    /\ outGone
    /\ Len(items) = 3
    /\ items[1].res.ok
    /\ items[2].res.ok
    /\ SinkFailure(items[3])
    /\ consumed = 2

\* the commands written to the transport that the server has not yet taken
CommandsOnTheWay(buf, srv) == srv \o buf

\* C39: every re-arm command written during a subscription has the same
\* argument list as the primer command written by subscribe (same verb,
\* group, consumer, streams and cursors), for any number of re-arms.
C39_RearmEqualsPrimer ==
    /\ [][written' > written =>
            /\ written' = written + 1
            /\ Len(CommandsOnTheWay(sinkBuf', srvIn')) = Len(CommandsOnTheWay(sinkBuf, srvIn)) + 1
            /\ CommandsOnTheWay(sinkBuf', srvIn')[Len(CommandsOnTheWay(sinkBuf', srvIn'))]
                  = subscribe_cmd(options)]_vars
    /\ [](\A k \in 1..Len(CommandsOnTheWay(sinkBuf, srvIn)) :
             CommandsOnTheWay(sinkBuf, srvIn)[k] = subscribe_cmd(options))

C39_Witness ==
    /\ owner = "subscribe"
    /\ options.group.kind = "Some"
    /\ written = MaxFrames + 1
    /\ consumed = MaxFrames
    /\ srvIn = <<subscribe_cmd(options)>>

====
